---- MODULE Spec2Model ----
(***************************************************************************)
(* GitHub MCP integration: the command-line agent of git_mcp2             *)
(* (mcp_client.py: parse_command, run_github_agent) and the tool server   *)
(* it talks to (mcp_server.py: handle_tool_call and its handlers).        *)
(*                                                                         *)
(* Python strings are sequences of atoms.  An atom is a TLA+ string that   *)
(* stands for one character (" ", "/", "'", a digit, the marker) or for a  *)
(* run of characters none of the modelled operations looks into (a word). *)
(* The empty Python string is << >>.  Values that a dict can hold are      *)
(* tagged records, so that None, strings, integers and booleans compare.  *)
(***************************************************************************)
EXTENDS Integers, Sequences, FiniteSets, TLC

\* ------------------------------------------------------------------ bounds
\* longest string given to _parse_repo_string on its own
MaxRepoLen == 4
\* most argument tokens after the command word in a generated command line
MaxArgs == 6
\* run_github_agent calls made one after the other in a behaviour
MaxCalls == 2

\* ------------------------------------------------------------ Python values
PyNone == [t |-> "None", v |-> << >>]
PyStr(s) == [t |-> "str", v |-> s]
PyInt(n) == [t |-> "int", v |-> n]
PyBool(b) == [t |-> "bool", v |-> b]

\* Python truthiness (`if x`, `not x`) of a tagged value
Truthy(x) ==
    CASE x.t = "None" -> FALSE
      [] x.t = "str" -> x.v # << >>
      [] x.t = "int" -> x.v # 0
      [] x.t = "bool" -> x.v
      [] x.t = "dict" -> DOMAIN x.v # {}
      [] x.t = "list" -> x.v # << >>
      [] OTHER -> TRUE

\* dict.get(key) and dict.get(key, default)
Get(d, k) == IF k \in DOMAIN d THEN d[k] ELSE PyNone
GetOr(d, k, dflt) == IF k \in DOMAIN d THEN d[k] ELSE dflt
EmptyDict == [k \in {} |-> PyNone]

\* ------------------------------------------------------------ str helpers
RECURSIVE Join(_, _)
\* sep.join(parts) for a sequence of strings
Join(parts, sep) ==
    IF parts = << >> THEN << >>
    ELSE IF Len(parts) = 1 THEN parts[1]
    ELSE parts[1] \o sep \o Join(Tail(parts), sep)

RECURSIVE SplitOn(_, _, _)
\* str.split(sep) for a one-atom separator: cur is the piece being read
SplitOn(s, sep, cur) ==
    IF s = << >> THEN << cur >>
    ELSE IF Head(s) = sep THEN << cur >> \o SplitOn(Tail(s), sep, << >>)
    ELSE SplitOn(Tail(s), sep, Append(cur, Head(s)))

\* str.split() with no argument: runs of whitespace separate, no empty pieces
WhitespaceSplit(s) == SelectSeq(SplitOn(s, " ", << >>), LAMBDA p : p # << >>)

RECURSIVE LStrip(_)
LStrip(s) == IF s # << >> /\ Head(s) = " " THEN LStrip(Tail(s)) ELSE s
RECURSIVE RStrip(_)
RStrip(s) ==
    IF s # << >> /\ s[Len(s)] = " " THEN RStrip(SubSeq(s, 1, Len(s) - 1)) ELSE s
\* str.strip()
Strip(s) == RStrip(LStrip(s))

\* `a in text` for a one-character a
Contains(text, a) == \E i \in 1..Len(text) : text[i] = a

\* str.lower() on one atom: the upper-case letters of the alphabet
LowerAtom(a) ==
    CASE a = "LIST_REPOSITORIES" -> "list_repositories"
      [] a = "Get_Repo_Details" -> "get_repo_details"
      [] a = "Update_Issue" -> "update_issue"
      [] a = "TRUE" -> "true"
      [] a = "Yes" -> "yes"
      [] OTHER -> a
Lower(s) == [i \in 1..Len(s) |-> LowerAtom(s[i])]

\* int(s): the digits of the alphabet; surrounding whitespace is accepted
DigitAtoms == {"0", "7"}
DigitVal(a) == IF a = "7" THEN 7 ELSE 0
IsIntLiteral(s) ==
    LET d == Strip(s) IN d # << >> /\ \A i \in 1..Len(d) : d[i] \in DigitAtoms
RECURSIVE DigitsValue(_, _)
DigitsValue(d, acc) ==
    IF d = << >> THEN acc ELSE DigitsValue(Tail(d), 10 * acc + DigitVal(Head(d)))
IntOf(s) == DigitsValue(Strip(s), 0)

\* ------------------------------------------------------------- shlex.split
RECURSIVE ShlexScan(_, _, _, _)
\* POSIX shlex over the alphabet: whitespace separates tokens outside quotes,
\* a quote character opens or closes a quoted stretch (which starts a token
\* even when empty).  started tells whether a token is being read.  ok is
\* FALSE when the input ends inside quotes (shlex raises ValueError).
ShlexScan(s, cur, started, inq) ==
    IF s = << >> THEN
        IF inq THEN [ok |-> FALSE, parts |-> << >>]
        ELSE [ok |-> TRUE, parts |-> IF started THEN << cur >> ELSE << >>]
    ELSE IF inq THEN
        IF Head(s) = "'" THEN ShlexScan(Tail(s), cur, TRUE, FALSE)
        ELSE ShlexScan(Tail(s), Append(cur, Head(s)), TRUE, TRUE)
    ELSE IF Head(s) = "'" THEN ShlexScan(Tail(s), cur, TRUE, TRUE)
    ELSE IF Head(s) = " " THEN
        LET rest == ShlexScan(Tail(s), << >>, FALSE, FALSE) IN
        IF started /\ rest.ok THEN [ok |-> TRUE, parts |-> << cur >> \o rest.parts]
        ELSE rest
    ELSE ShlexScan(Tail(s), Append(cur, Head(s)), TRUE, FALSE)

ShlexSplit(s) == ShlexScan(s, << >>, FALSE, FALSE)

\* `try: parts = shlex.split(query)  except Exception: parts = query.split()`
Tokenize(query) ==
    LET r == ShlexSplit(query) IN IF r.ok THEN r.parts ELSE WhitespaceSplit(query)

\* ------------------------------------------------------------ parse_command
PyDict(d) == [t |-> "dict", v |-> d]
NoCommand == [raised |-> "", tool_name |-> PyNone, arguments |-> PyNone]
Raises(exc) == [raised |-> exc, tool_name |-> PyNone, arguments |-> PyNone]

\* `return "name", args`; parts[need - 1] is the last index the branch reads
\* unconditionally, and reading past the end of a list raises IndexError
Command(name, parts, need, args) ==
    IF Len(parts) < need THEN Raises("IndexError")
    ELSE [raised |-> "", tool_name |-> PyStr(<< name >>), arguments |-> PyDict(args)]

\* the guard `if len(parts) < k: return None, None`, off by one
TooFewOffByOne(parts, k) == Len(parts) < k - 1
\* the guard `if len(parts) < k: return None, None`
TooFew(parts, k) == Len(parts) < k

\* `if len(parts) > i: args[key] = parts[i]`
Optional(parts, i, key) ==
    IF Len(parts) > i THEN key :> PyStr(parts[i + 1]) ELSE EmptyDict

\* `args["private"] = parts[3].lower() in ["true", "1", "yes"]`
OptionalPrivate(parts) ==
    IF Len(parts) > 3
    THEN "private" :> PyBool(Lower(parts[4]) \in {<< "true" >>, << "1" >>, << "yes" >>})
    ELSE EmptyDict

parse_command(query) ==
    LET parts == Tokenize(query)
        \* parts[i] with Python's index i
        P(i) == PyStr(parts[i + 1])
    IN
    IF parts = << >> THEN NoCommand
    ELSE LET cmd == Lower(parts[1]) IN
    CASE cmd = << "list_repositories" >> ->
            IF TooFew(parts, 2) THEN NoCommand
            ELSE Command("list_repositories", parts, 2, "username" :> P(1))
      [] cmd = << "get_repo_details" >> ->
            IF TooFew(parts, 2) THEN NoCommand
            ELSE Command("get_repo_details", parts, 2, "repo" :> P(1))
      [] cmd = << "search_repositories" >> ->
            IF TooFew(parts, 2) THEN NoCommand
            ELSE Command("search_repositories", parts, 2,
                    "query" :> P(1) @@ Optional(parts, 2, "sort")
                        @@ Optional(parts, 3, "order"))
      [] cmd = << "create_repository" >> ->
            IF TooFew(parts, 2) THEN NoCommand
            ELSE Command("create_repository", parts, 2,
                    "name" :> P(1) @@ Optional(parts, 2, "description")
                        @@ OptionalPrivate(parts))
      [] cmd = << "fork_repository" >> ->
            IF TooFew(parts, 2) THEN NoCommand
            ELSE Command("fork_repository", parts, 2, "repo" :> P(1))
      [] cmd = << "list_issues" >> ->
            IF TooFew(parts, 2) THEN NoCommand
            ELSE Command("list_issues", parts, 2,
                    "repo" :> P(1) @@ Optional(parts, 2, "state")
                        @@ Optional(parts, 3, "labels"))
      [] cmd = << "create_issue" >> ->
            IF TooFew(parts, 3) THEN NoCommand
            ELSE Command("create_issue", parts, 3,
                    "repo" :> P(1) @@ "title" :> P(2) @@ Optional(parts, 3, "body"))
      [] cmd = << "update_issue" >> ->
            IF TooFew(parts, 3) THEN NoCommand
            ELSE IF Len(parts) < 3 THEN Raises("IndexError")
            ELSE IF ~IsIntLiteral(parts[3]) THEN Raises("ValueError")
            ELSE Command("update_issue", parts, 3,
                    "repo" :> P(1) @@ "issue_number" :> PyInt(IntOf(parts[3]))
                        @@ Optional(parts, 3, "title") @@ Optional(parts, 4, "body")
                        @@ Optional(parts, 5, "state"))
      [] cmd = << "list_pull_requests" >> ->
            IF TooFew(parts, 2) THEN NoCommand
            ELSE Command("list_pull_requests", parts, 2,
                    "repo" :> P(1) @@ Optional(parts, 2, "state"))
      [] cmd = << "create_pull_request" >> ->
            IF TooFew(parts, 5) THEN NoCommand
            ELSE Command("create_pull_request", parts, 5,
                    "repo" :> P(1) @@ "title" :> P(2) @@ "head" :> P(3)
                        @@ "base" :> P(4) @@ Optional(parts, 5, "body"))
      [] cmd = << "get_file_contents" >> ->
            IF TooFew(parts, 3) THEN NoCommand
            ELSE Command("get_file_contents", parts, 3,
                    "repo" :> P(1) @@ "path" :> P(2) @@ Optional(parts, 3, "branch"))
      [] cmd = << "create_or_update_file" >> ->
            IF TooFew(parts, 6) THEN NoCommand
            ELSE Command("create_or_update_file", parts, 6,
                    "repo" :> P(1) @@ "path" :> P(2) @@ "content" :> P(3)
                        @@ "message" :> P(4) @@ "branch" :> P(5)
                        @@ Optional(parts, 6, "sha"))
      [] cmd = << "list_branches" >> ->
            IF TooFew(parts, 2) THEN NoCommand
            ELSE Command("list_branches", parts, 2, "repo" :> P(1))
      [] cmd = << "create_branch" >> ->
            IF TooFew(parts, 3) THEN NoCommand
            ELSE Command("create_branch", parts, 3,
                    "repo" :> P(1) @@ "branch" :> P(2)
                        @@ Optional(parts, 3, "from_branch"))
      [] cmd = << "list_commits" >> ->
            IF TooFew(parts, 2) THEN NoCommand
            ELSE Command("list_commits", parts, 2,
                    "repo" :> P(1) @@ Optional(parts, 2, "branch"))
      [] cmd = << "search_code" >> ->
            IF TooFew(parts, 2) THEN NoCommand
            ELSE Command("search_code", parts, 2, "query" :> P(1))
      [] cmd = << "list_releases" >> ->
            IF TooFew(parts, 2) THEN NoCommand
            ELSE Command("list_releases", parts, 2, "repo" :> P(1))
      [] cmd = << "get_user_info" >> ->
            IF TooFew(parts, 2) THEN NoCommand
            ELSE Command("get_user_info", parts, 2, "username" :> P(1))
      [] OTHER -> NoCommand

\* ------------------------------------------- github_agent: parse_command
\* parse_command with the user name taken as it stands
github_agent_parse_command_unstripped(query) ==
    LET parts == Tokenize(query) IN
    IF parts = << >> THEN NoCommand
    ELSE LET cmd == Lower(parts[1]) IN
    IF cmd = << "list_repositories" >> THEN
        IF TooFew(parts, 2) THEN NoCommand
        ELSE Command("list_repositories", parts, 2, "username" :> PyStr(parts[2]))
    ELSE IF cmd = << "get_repo_details" >> THEN
        IF TooFew(parts, 2) THEN NoCommand
        ELSE Command("get_repo_details", parts, 2, "repo" :> PyStr(parts[2]))
    ELSE NoCommand

\* the parse_command of the root agent: the same tokens, two commands, and
\* `{"username": parts[1].strip()}`
github_agent_parse_command(query) ==
    LET parts == Tokenize(query) IN
    IF parts = << >> THEN NoCommand
    ELSE LET cmd == Lower(parts[1]) IN
    IF cmd = << "list_repositories" >> THEN
        IF TooFew(parts, 2) THEN NoCommand
        ELSE Command("list_repositories", parts, 2, "username" :> PyStr(Strip(parts[2])))
    ELSE IF cmd = << "get_repo_details" >> THEN
        IF TooFew(parts, 2) THEN NoCommand
        ELSE Command("get_repo_details", parts, 2, "repo" :> PyStr(parts[2]))
    ELSE NoCommand

\* ------------------------------------------------------ _parse_repo_string
\* `if len(parts) == 2` weakened to "at least two parts"
SplitsInTwoOrMore(parts) == Len(parts) >= 2
\* `if len(parts) == 2`
SplitsInTwo(parts) == Len(parts) = 2

\* (owner, repo) of a value that is None or a string
_parse_repo_string(repo_str) ==
    IF ~Truthy(repo_str) THEN << PyNone, PyNone >>
    ELSE LET parts == SplitOn(repo_str.v, "/", << >>) IN
         IF SplitsInTwo(parts) THEN << PyStr(parts[1]), PyStr(parts[2]) >>
         ELSE << PyNone, repo_str >>

\* =================================================================== server
VARIABLES
    GITHUB_TOKEN,   \* mcp_server.GITHUB_TOKEN: read once from the environment
    httpLog,        \* outbound HTTP calls of the current handler, in order
    srvName,        \* name of the tool call being handled
    srvArguments,   \* arguments as they arrived
    srvOutcome,     \* what the handler gave back: content items or an exception
    srvPc           \* "ready" | "called" (a request has arrived) | "returned"

PyList(xs) == [t |-> "list", v |-> xs]
\* response.json() of a body that is not JSON raises
InvalidJson == [t |-> "invalid", v |-> << >>]

\* str(n) for a natural number
DigitAtom(d) ==
    CASE d = 0 -> "0" [] d = 1 -> "1" [] d = 2 -> "2" [] d = 3 -> "3" [] d = 4 -> "4"
      [] d = 5 -> "5" [] d = 6 -> "6" [] d = 7 -> "7" [] d = 8 -> "8" [] OTHER -> "9"
RECURSIVE IntStr(_)
IntStr(n) == IF n < 10 THEN << DigitAtom(n) >> ELSE IntStr(n \div 10) \o << DigitAtom(n % 10) >>

\* str(x) / f"{x}" of a tagged value
Str(x) ==
    CASE x.t = "str" -> x.v
      [] x.t = "None" -> << "None" >>
      [] x.t = "int" -> IntStr(x.v)
      [] x.t = "bool" -> IF x.v THEN << "True" >> ELSE << "False" >>
      [] OTHER -> << "{...}" >>

\* `x or default` inside an f-string
StrOr(x, dflt) == IF Truthy(x) THEN Str(x) ELSE dflt

\* what a handler gives back: the calls it made, and either a list of text
\* items or an exception that left the handler
Returns(calls, text) == [calls |-> calls, content |-> << text >>, raised |-> ""]
Escapes(calls, exc) == [calls |-> calls, content |-> << >>, raised |-> exc]

\* the marker character U+274C (cross mark) that flags an error text, and the
\* check mark U+2705 of the success texts
Marker == "(x)"
CheckMark == "(v)"

\* f"<marker> {error}"
ErrorText(msg) == << Marker, " " >> \o msg
TokenRequired == ErrorText(<< "GitHub token required for this operation" >>)
InvalidRepo == ErrorText(<< "Invalid repo format. Use 'owner/repo'" >>)
Missing(what) == ErrorText(<< "Missing", " ", what >>)

\* `if GITHUB_TOKEN is None`: an empty token passes
NoTokenIsNone == GITHUB_TOKEN = PyNone
\* `if not GITHUB_TOKEN`, the first statement of every mutating handler
NoToken == ~Truthy(GITHUB_TOKEN)

\* _get_headers(): the Authorization header is present only with a token
_get_headers == [Accept |-> "application/vnd.github.v3+json",
                 Authorization |-> Truthy(GITHUB_TOKEN)]

\* one outbound call and the response the remote side gave to it
Call(method, url, json, resp) ==
    [method |-> method, url |-> url, json |-> json, headers |-> _get_headers,
     resp |-> resp]

\* `response.json().get("message", str(response.status_code))` then
\* `return [TextContent(text=f"<marker> {error}")]`; a body that is not a JSON object
\* raises inside the try block and is reported by `except Exception as e`
StatusError(resp, dflt) ==
    IF resp.body.t = "invalid" THEN ErrorText(<< "JSONDecodeError" >>)
    ELSE IF resp.body.t # "dict" THEN ErrorText(<< "AttributeError" >>)
    ELSE ErrorText(Str(GetOr(resp.body.v, "message", PyStr(dflt))))

\* the call made once more after a failure or a status outside ok
OneCallRetried(method, url, json, resp, ok, dflt, rendered) ==
    IF resp.exc # "" \/ resp.status \notin ok
    THEN Returns(<< Call(method, url, json, resp), Call(method, url, json, resp) >>,
                 ErrorText(IntStr(resp.status)))
    ELSE Returns(<< Call(method, url, json, resp) >>, rendered)

\* the try block of a handler that makes one call: the call raising, a status
\* outside ok, an undecodable body, or the handler's own rendering of the body
\* (rendered, which is read only when the body was decoded)
OneCall(method, url, json, resp, ok, dflt, rendered) ==
    LET text ==
            IF resp.exc # "" THEN ErrorText(<< resp.exc >>)
            ELSE IF resp.status \notin ok THEN StatusError(resp, dflt)
            ELSE IF resp.body.t = "invalid" THEN ErrorText(<< "JSONDecodeError" >>)
            ELSE rendered
    IN Returns(<< Call(method, url, json, resp) >>, text)

\* `x[key]` for every key in keys, else KeyError (TypeError when x is no dict)
Subscript(x, keys, text) ==
    IF x.t # "dict" THEN ErrorText(<< "TypeError" >>)
    ELSE IF \E k \in keys : k \notin DOMAIN x.v THEN ErrorText(<< "KeyError" >>)
    ELSE text

\* the blocks joined without the `if not data` test
ListingUnguarded(data, emptyText, blocks, sep) ==
    IF data.t # "list" THEN ErrorText(<< "TypeError" >>)
    ELSE IF \E i \in 1..Len(blocks) : ~blocks[i].ok THEN ErrorText(<< "KeyError" >>)
    ELSE Join([i \in 1..Len(blocks) |-> blocks[i].text], sep)

\* `if not data: return <empty text>`, then one block per item, joined by sep.
\* blocks[i] is [ok, text] for item i: ok is FALSE when rendering it raises.
Listing(data, emptyText, blocks, sep) ==
    IF ~Truthy(data) THEN emptyText
    ELSE IF data.t # "list" THEN ErrorText(<< "TypeError" >>)
    ELSE IF \E i \in 1..Len(blocks) : ~blocks[i].ok THEN ErrorText(<< "KeyError" >>)
    ELSE Join([i \in 1..Len(blocks) |-> blocks[i].text], sep)

\* rendering of one list item that reads item[k] for every k in keys
Block(x, keys, text) ==
    IF x.t # "dict" \/ \E k \in keys : k \notin DOMAIN x.v
    THEN [ok |-> FALSE, text |-> << >>]
    ELSE [ok |-> TRUE, text |-> text]

\* `arguments.get(...)` on something that is not a dict raises AttributeError
\* before the handler's try block
WithDict(arguments, outcome) ==
    IF arguments.t # "dict" THEN Escapes(<< >>, "AttributeError") ELSE outcome

Api(path) == << "https://api.github.com" >> \o path
RepoApi(owner, repo_name, rest) ==
    Api(<< "/repos/" >> \o Str(owner) \o << "/" >> \o Str(repo_name) \o rest)

\* the test on the owner alone
BadRepoOwnerOnly(owner, repo_name) == ~Truthy(owner)

\* `if not owner or not repo_name`
BadRepo(owner, repo_name) == ~Truthy(owner) \/ ~Truthy(repo_name)

\* ----------------------------------------------------------------- handlers
\* Each handler is given the extracted arguments and http, the responses the
\* remote side would give to its first and second outbound call.
NL == "\n"

list_repositories(arguments, http) ==
    WithDict(arguments,
        LET username == Get(arguments.v, "username") IN
        IF ~Truthy(username) THEN Returns(<< >>, Missing("username parameter"))
        ELSE
            LET Repo(repo) ==
                    Block(repo, {"full_name"},
                        Str(Get(repo.v, "full_name")) \o << " (" >>
                        \o Str(GetOr(repo.v, "visibility", PyStr(<< "public" >>)))
                        \o << ") - ", "stars", " " >>
                        \o Str(GetOr(repo.v, "stargazers_count", PyInt(0)))
                        \o << " - " >>
                        \o StrOr(Get(repo.v, "description"), << "No description" >>))
                Render(data) ==
                    Listing(data, << "No repositories found" >>,
                        [i \in 1..Len(data.v) |-> Repo(data.v[i])], << NL, NL >>)
            IN OneCall("GET", Api(<< "/users/" >> \o Str(username) \o << "/repos" >>),
                       PyNone, http[1], {200}, << "Error: " >> \o IntStr(http[1].status),
                       Render(http[1].body)))

get_repo_details(arguments, http) ==
    WithDict(arguments,
        LET repo == Get(arguments.v, "repo")
            owner == _parse_repo_string(repo)[1]
            repo_name == _parse_repo_string(repo)[2]
        IN
        IF BadRepo(owner, repo_name) THEN Returns(<< >>, InvalidRepo)
        ELSE
            LET Render(data) ==
                    IF data.t # "dict" THEN ErrorText(<< "AttributeError" >>)
                    ELSE << "Repository: " >> \o Str(Get(data.v, "full_name"))
                         \o << NL, "Description: " >>
                         \o StrOr(Get(data.v, "description"), << "No description" >>)
                         \o << NL, "Private: " >> \o Str(Get(data.v, "private"))
                         \o << NL, "URL: " >> \o Str(Get(data.v, "html_url"))
                         \o << NL, "Default Branch: " >>
                         \o Str(Get(data.v, "default_branch"))
            IN OneCall("GET", RepoApi(owner, repo_name, << >>), PyNone, http[1],
                       {200}, IntStr(http[1].status), Render(http[1].body)))

search_repositories(arguments, http) ==
    WithDict(arguments,
        LET query == Get(arguments.v, "query") IN
        IF ~Truthy(query) THEN Returns(<< >>, Missing("query parameter"))
        ELSE
            LET Repo(repo) ==
                    Block(repo, {"full_name", "stargazers_count"},
                        Str(Get(repo.v, "full_name")) \o << " - ", "stars", " " >>
                        \o Str(Get(repo.v, "stargazers_count")) \o << " - " >>
                        \o StrOr(Get(repo.v, "description"), << "No description" >>))
                Render(data) ==
                    IF data.t # "dict" THEN ErrorText(<< "AttributeError" >>)
                    ELSE LET items == GetOr(data.v, "items", PyList(<< >>))
                             total == GetOr(data.v, "total_count", PyInt(0))
                             header(n) == << "Found " >> \o Str(total)
                                 \o << " repositories (showing " >> \o IntStr(n)
                                 \o << "):", NL, NL >>
                         IN
                         IF items.t # "list" THEN ErrorText(<< "TypeError" >>)
                         ELSE LET blocks == [i \in 1..Len(items.v) |-> Repo(items.v[i])] IN
                              IF \E i \in 1..Len(blocks) : ~blocks[i].ok
                              THEN ErrorText(<< "KeyError" >>)
                              ELSE header(Len(blocks))
                                   \o Join([i \in 1..Len(blocks) |-> blocks[i].text],
                                           << NL >>)
            IN OneCall("GET", Api(<< "/search/repositories" >>), PyNone, http[1],
                       {200}, IntStr(http[1].status), Render(http[1].body)))

create_repository(arguments, http) ==
    IF NoToken THEN Returns(<< >>, TokenRequired)
    ELSE WithDict(arguments,
        LET repo_name == Get(arguments.v, "name") IN
        IF ~Truthy(repo_name) THEN Returns(<< >>, Missing("repository name"))
        ELSE
            LET data == PyDict("name" :> repo_name
                            @@ "description" :> GetOr(arguments.v, "description", PyStr(<< >>))
                            @@ "private" :> GetOr(arguments.v, "private", PyBool(FALSE))
                            @@ "auto_init" :> GetOr(arguments.v, "auto_init", PyBool(TRUE)))
                Render(repo) ==
                    Subscript(repo, {"html_url"},
                        << CheckMark, " ", "Repository created: " >>
                        \o Str(Get(repo.v, "html_url")))
            IN OneCall("POST", Api(<< "/user/repos" >>), data, http[1], {200, 201},
                       IntStr(http[1].status), Render(http[1].body)))

fork_repository(arguments, http) ==
    IF NoToken THEN Returns(<< >>, TokenRequired)
    ELSE WithDict(arguments,
        LET repo == Get(arguments.v, "repo")
            owner == _parse_repo_string(repo)[1]
            repo_name == _parse_repo_string(repo)[2]
        IN
        IF BadRepo(owner, repo_name) THEN Returns(<< >>, InvalidRepo)
        ELSE
            LET Render(fork) ==
                    Subscript(fork, {"html_url"},
                        << CheckMark, " ", "Repository forked: " >>
                        \o Str(Get(fork.v, "html_url")))
            IN OneCall("POST", RepoApi(owner, repo_name, << "/forks" >>), PyNone,
                       http[1], {200, 202}, IntStr(http[1].status), Render(http[1].body)))

\* `if arguments.get(key): data[key] = arguments[key]`
IfGiven(arguments, key, as) ==
    IF Truthy(Get(arguments.v, key)) THEN as :> arguments.v[key] ELSE EmptyDict

\* `", ".join([l["name"] for l in issue.get("labels", [])]) or 'None'`
LabelNames(issue) ==
    LET labels == GetOr(issue.v, "labels", PyList(<< >>)) IN
    IF labels.t # "list" \/ labels.v = << >> THEN << "None" >>
    ELSE Join([i \in 1..Len(labels.v) |-> Str(Get(labels.v[i].v, "name"))], << ", " >>)

\* every entry kept, pull requests too
NotPRAlways(issue) == TRUE
\* `if "pull_request" not in issue`
NotPR(issue) == issue.t # "dict" \/ "pull_request" \notin DOMAIN issue.v

list_issues(arguments, http) ==
    WithDict(arguments,
        LET repo == Get(arguments.v, "repo")
            owner == _parse_repo_string(repo)[1]
            repo_name == _parse_repo_string(repo)[2]
        IN
        IF BadRepo(owner, repo_name) THEN Returns(<< >>, InvalidRepo)
        ELSE
            LET Issue(issue) ==
                    Block(issue, {"number", "title", "state", "html_url"},
                        << "#" >> \o Str(Get(issue.v, "number")) \o << " - " >>
                        \o Str(Get(issue.v, "title")) \o << NL, "  State: " >>
                        \o Str(Get(issue.v, "state")) \o << " | Labels: " >>
                        \o LabelNames(issue) \o << NL, "  URL: " >>
                        \o Str(Get(issue.v, "html_url")))
                Render(issues) ==
                    IF ~Truthy(issues) THEN << "No issues found" >>
                    ELSE IF issues.t # "list" THEN ErrorText(<< "TypeError" >>)
                    ELSE LET kept == SelectSeq(issues.v, NotPR)
                             blocks == [i \in 1..Len(kept) |-> Issue(kept[i])]
                         IN
                         IF \E i \in 1..Len(blocks) : ~blocks[i].ok
                         THEN ErrorText(<< "KeyError" >>)
                         ELSE Join([i \in 1..Len(blocks) |-> blocks[i].text],
                                   << NL, NL >>)
            IN OneCall("GET", RepoApi(owner, repo_name, << "/issues" >>), PyNone,
                       http[1], {200}, IntStr(http[1].status), Render(http[1].body)))

create_issue(arguments, http) ==
    IF NoToken THEN Returns(<< >>, TokenRequired)
    ELSE WithDict(arguments,
        LET repo == Get(arguments.v, "repo")
            owner == _parse_repo_string(repo)[1]
            repo_name == _parse_repo_string(repo)[2]
            title == Get(arguments.v, "title")
        IN
        IF BadRepo(owner, repo_name) THEN Returns(<< >>, InvalidRepo)
        ELSE IF ~Truthy(title) THEN Returns(<< >>, Missing("title parameter"))
        ELSE
            LET data == PyDict("title" :> title
                            @@ "body" :> GetOr(arguments.v, "body", PyStr(<< >>))
                            @@ IfGiven(arguments, "labels", "labels")
                            @@ IfGiven(arguments, "assignees", "assignees"))
                Render(issue) ==
                    Subscript(issue, {"number", "html_url"},
                        << CheckMark, " ", "Issue created: #" >>
                        \o Str(Get(issue.v, "number")) \o << " - " >>
                        \o Str(Get(issue.v, "html_url")))
            IN OneCall("POST", RepoApi(owner, repo_name, << "/issues" >>), data,
                       http[1], {200, 201}, IntStr(http[1].status), Render(http[1].body)))

update_issue(arguments, http) ==
    IF NoToken THEN Returns(<< >>, TokenRequired)
    ELSE WithDict(arguments,
        LET repo == Get(arguments.v, "repo")
            owner == _parse_repo_string(repo)[1]
            repo_name == _parse_repo_string(repo)[2]
            issue_number == Get(arguments.v, "issue_number")
        IN
        IF BadRepo(owner, repo_name) THEN Returns(<< >>, InvalidRepo)
        ELSE IF ~Truthy(issue_number)
        THEN Returns(<< >>, Missing("issue_number parameter"))
        ELSE
            LET data == PyDict(IfGiven(arguments, "title", "title")
                            @@ IfGiven(arguments, "body", "body")
                            @@ IfGiven(arguments, "state", "state")
                            @@ IfGiven(arguments, "labels", "labels"))
                Render(issue) ==
                    Subscript(issue, {"number", "html_url"},
                        << CheckMark, " ", "Issue updated: #" >>
                        \o Str(Get(issue.v, "number")) \o << " - " >>
                        \o Str(Get(issue.v, "html_url")))
            IN OneCall("PATCH",
                       RepoApi(owner, repo_name, << "/issues/" >> \o Str(issue_number)),
                       data, http[1], {200}, IntStr(http[1].status), Render(http[1].body)))

list_pull_requests(arguments, http) ==
    WithDict(arguments,
        LET repo == Get(arguments.v, "repo")
            owner == _parse_repo_string(repo)[1]
            repo_name == _parse_repo_string(repo)[2]
        IN
        IF BadRepo(owner, repo_name) THEN Returns(<< >>, InvalidRepo)
        ELSE
            LET PR(pr) ==
                    Block(pr, {"number", "title", "head", "base", "state", "html_url"},
                        << "#" >> \o Str(Get(pr.v, "number")) \o << " - " >>
                        \o Str(Get(pr.v, "title")) \o << NL, "  State: " >>
                        \o Str(Get(pr.v, "state")) \o << " | Draft: " >>
                        \o Str(GetOr(pr.v, "draft", PyBool(FALSE)))
                        \o << NL, "  URL: " >> \o Str(Get(pr.v, "html_url")))
                Render(prs) ==
                    Listing(prs, << "No pull requests found" >>,
                        [i \in 1..Len(prs.v) |-> PR(prs.v[i])], << NL, NL >>)
            IN OneCall("GET", RepoApi(owner, repo_name, << "/pulls" >>), PyNone,
                       http[1], {200}, IntStr(http[1].status), Render(http[1].body)))

create_pull_request(arguments, http) ==
    IF NoToken THEN Returns(<< >>, TokenRequired)
    ELSE WithDict(arguments,
        LET repo == Get(arguments.v, "repo")
            owner == _parse_repo_string(repo)[1]
            repo_name == _parse_repo_string(repo)[2]
            required == << "title", "head", "base" >>
            absent == SelectSeq(required, LAMBDA f : ~Truthy(Get(arguments.v, f)))
        IN
        IF BadRepo(owner, repo_name) THEN Returns(<< >>, InvalidRepo)
        ELSE IF absent # << >>
        THEN Returns(<< >>, ErrorText(<< "Missing", " ", absent[1], " ", "parameter" >>))
        ELSE
            LET data == PyDict("title" :> arguments.v["title"]
                            @@ "head" :> arguments.v["head"]
                            @@ "base" :> arguments.v["base"]
                            @@ "body" :> GetOr(arguments.v, "body", PyStr(<< >>))
                            @@ "draft" :> GetOr(arguments.v, "draft", PyBool(FALSE)))
                Render(pr) ==
                    Subscript(pr, {"number", "html_url"},
                        << CheckMark, " ", "Pull request created: #" >>
                        \o Str(Get(pr.v, "number")) \o << " - " >>
                        \o Str(Get(pr.v, "html_url")))
            IN OneCall("POST", RepoApi(owner, repo_name, << "/pulls" >>), data,
                       http[1], {200, 201}, IntStr(http[1].status), Render(http[1].body)))

\* str.encode(): the UTF-8 bytes of one character of the alphabet; the atom
\* "U+00E9" is the two-byte character e-acute
Utf8Char(c) ==
    CASE c = "h" -> << 104 >> [] c = "i" -> << 105 >> [] c = "t" -> << 116 >>
      [] c = "0" -> << 48 >> [] c = "3" -> << 51 >> [] c = "4" -> << 52 >>
      [] c = "5" -> << 53 >> [] c = "6" -> << 54 >> [] c = "7" -> << 55 >>
      [] c = "8" -> << 56 >> [] c = "9" -> << 57 >> [] c = NL -> << 10 >>
      [] c = "U+00E9" -> << 195, 169 >>
      [] OTHER -> << 63 >>
RECURSIVE Utf8Encode(_)
Utf8Encode(s) == IF s = << >> THEN << >> ELSE Utf8Char(Head(s)) \o Utf8Encode(Tail(s))

RECURSIVE Utf8Decode(_)
\* bytes.decode("utf-8") over the alphabet: ok is FALSE when the bytes are not
\* UTF-8 (UnicodeDecodeError)
Utf8Decode(b) ==
    IF b = << >> THEN [ok |-> TRUE, chars |-> << >>]
    ELSE LET one == {c \in {"h", "i", "t", "0", "3", "4", "5", "6", "7", "8", "9", NL} :
                        Utf8Char(c) = << b[1] >>}
             two == Len(b) >= 2 /\ b[1] = 195 /\ b[2] = 169
             rest == Utf8Decode(SubSeq(b, IF two THEN 3 ELSE 2, Len(b)))
         IN
         IF one = {} /\ ~two THEN [ok |-> FALSE, chars |-> << >>]
         ELSE [ok |-> rest.ok,
               chars |-> << IF two THEN "U+00E9" ELSE CHOOSE c \in one : TRUE >>
                         \o rest.chars]

\* the base64 alphabet, value 0 first
B64Chars ==
    << "A", "B", "C", "D", "E", "F", "G", "H", "I", "J", "K", "L", "M", "N", "O", "P",
       "Q", "R", "S", "T", "U", "V", "W", "X", "Y", "Z", "a", "b", "c", "d", "e", "f",
       "g", "h", "i", "j", "k", "l", "m", "n", "o", "p", "q", "r", "s", "t", "u", "v",
       "w", "x", "y", "z", "0", "1", "2", "3", "4", "5", "6", "7", "8", "9", "+", "/" >>
B64Val(c) == (CHOOSE k \in 1..64 : B64Chars[k] = c) - 1

RECURSIVE B64EncodeUnpadded(_)
\* the encoding without the "=" that fill the last group
B64EncodeUnpadded(b) ==
    IF b = << >> THEN << >>
    ELSE IF Len(b) = 1
    THEN << B64Chars[b[1] \div 4 + 1], B64Chars[(b[1] % 4) * 16 + 1] >>
    ELSE IF Len(b) = 2
    THEN << B64Chars[b[1] \div 4 + 1], B64Chars[(b[1] % 4) * 16 + b[2] \div 16 + 1],
            B64Chars[(b[2] % 16) * 4 + 1] >>
    ELSE << B64Chars[b[1] \div 4 + 1], B64Chars[(b[1] % 4) * 16 + b[2] \div 16 + 1],
            B64Chars[(b[2] % 16) * 4 + b[3] \div 64 + 1], B64Chars[(b[3] % 64) + 1] >>
         \o B64EncodeUnpadded(SubSeq(b, 4, Len(b)))

RECURSIVE B64Encode(_)
\* base64.b64encode(bytes).decode(): three bytes give four characters, the
\* last group is filled with "="
B64Encode(b) ==
    IF b = << >> THEN << >>
    ELSE IF Len(b) = 1
    THEN << B64Chars[b[1] \div 4 + 1], B64Chars[(b[1] % 4) * 16 + 1], "=", "=" >>
    ELSE IF Len(b) = 2
    THEN << B64Chars[b[1] \div 4 + 1], B64Chars[(b[1] % 4) * 16 + b[2] \div 16 + 1],
            B64Chars[(b[2] % 16) * 4 + 1], "=" >>
    ELSE << B64Chars[b[1] \div 4 + 1], B64Chars[(b[1] % 4) * 16 + b[2] \div 16 + 1],
            B64Chars[(b[2] % 16) * 4 + b[3] \div 64 + 1], B64Chars[(b[3] % 64) + 1] >>
         \o B64Encode(SubSeq(b, 4, Len(b)))

\* base64.b64decode(s) accepts s: characters outside the alphabet (line breaks)
\* are skipped, and the last group has two or three characters only together
\* with its padding; otherwise binascii.Error
IsB64(s) ==
    LET d == SelectSeq(s, LAMBDA c : \E k \in 1..64 : B64Chars[k] = c)
        pad == Len(SelectSeq(s, LAMBDA c : c = "="))
    IN \/ Len(d) % 4 = 0
       \/ Len(d) % 4 = 2 /\ pad >= 2
       \/ Len(d) % 4 = 3 /\ pad >= 1

RECURSIVE B64DecodeGroups(_)
B64DecodeGroups(d) ==
    IF Len(d) < 2 THEN << >>
    ELSE LET v1 == B64Val(d[1])
             v2 == B64Val(d[2])
         IN
         IF Len(d) = 2 THEN << v1 * 4 + v2 \div 16 >>
         ELSE IF Len(d) = 3
         THEN << v1 * 4 + v2 \div 16, (v2 % 16) * 16 + B64Val(d[3]) \div 4 >>
         ELSE << v1 * 4 + v2 \div 16, (v2 % 16) * 16 + B64Val(d[3]) \div 4,
                 (B64Val(d[3]) % 4) * 64 + B64Val(d[4]) >>
              \o B64DecodeGroups(SubSeq(d, 5, Len(d)))

\* base64.b64decode(s): the bytes of an accepted s
B64Decode(s) ==
    B64DecodeGroups(SelectSeq(s, LAMBDA c : \E k \in 1..64 : B64Chars[k] = c))

get_file_contents(arguments, http) ==
    WithDict(arguments,
        LET repo == Get(arguments.v, "repo")
            owner == _parse_repo_string(repo)[1]
            repo_name == _parse_repo_string(repo)[2]
            path == Get(arguments.v, "path")
        IN
        IF BadRepo(owner, repo_name) THEN Returns(<< >>, InvalidRepo)
        ELSE IF ~Truthy(path) THEN Returns(<< >>, Missing("path parameter"))
        ELSE
            LET Render(data) ==
                    Subscript(data, {"content", "size", "sha"},
                        IF Get(data.v, "content").t # "str"
                        THEN ErrorText(<< "TypeError" >>)
                        ELSE IF ~IsB64(Get(data.v, "content").v)
                        THEN ErrorText(<< "binascii.Error" >>)
                        ELSE IF ~Utf8Decode(B64Decode(Get(data.v, "content").v)).ok
                        THEN ErrorText(<< "UnicodeDecodeError" >>)
                        ELSE << "File: " >> \o Str(path) \o << NL, "Size: " >>
                             \o Str(Get(data.v, "size")) \o << " bytes", NL, "SHA: " >>
                             \o Str(Get(data.v, "sha")) \o << NL, NL >>
                             \o Utf8Decode(B64Decode(Get(data.v, "content").v)).chars)
            IN OneCall("GET",
                       RepoApi(owner, repo_name, << "/contents/" >> \o Str(path)),
                       PyNone, http[1], {200}, IntStr(http[1].status), Render(http[1].body)))

create_or_update_file(arguments, http) ==
    IF NoToken THEN Returns(<< >>, TokenRequired)
    ELSE WithDict(arguments,
        LET repo == Get(arguments.v, "repo")
            owner == _parse_repo_string(repo)[1]
            repo_name == _parse_repo_string(repo)[2]
            path == Get(arguments.v, "path")
            content == Get(arguments.v, "content")
            message == Get(arguments.v, "message")
            branch == Get(arguments.v, "branch")
        IN
        IF BadRepo(owner, repo_name) THEN Returns(<< >>, InvalidRepo)
        ELSE IF ~(Truthy(path) /\ Truthy(content) /\ Truthy(message) /\ Truthy(branch))
        THEN Returns(<< >>, Missing("required parameters"))
        ELSE IF content.t # "str" THEN Escapes(<< >>, "AttributeError")
        ELSE
            LET data == PyDict("message" :> message
                            @@ "content" :> PyStr(B64Encode(Utf8Encode(content.v)))
                            @@ "branch" :> branch
                            @@ IfGiven(arguments, "sha", "sha"))
                Render(result) ==
                    Subscript(result, {"content"},
                        Subscript(Get(result.v, "content"), {"html_url"},
                            << CheckMark, " ", "File " >>
                            \o (IF Truthy(Get(arguments.v, "sha"))
                                THEN << "updated" >> ELSE << "created" >>)
                            \o << ": " >>
                            \o Str(Get(Get(result.v, "content").v, "html_url"))))
            IN OneCall("PUT",
                       RepoApi(owner, repo_name, << "/contents/" >> \o Str(path)),
                       data, http[1], {200, 201}, IntStr(http[1].status), Render(http[1].body)))

list_branches(arguments, http) ==
    WithDict(arguments,
        LET repo == Get(arguments.v, "repo")
            owner == _parse_repo_string(repo)[1]
            repo_name == _parse_repo_string(repo)[2]
        IN
        IF BadRepo(owner, repo_name) THEN Returns(<< >>, InvalidRepo)
        ELSE
            LET Branch(branch) ==
                    Block(branch, {"name", "commit"},
                        (IF Truthy(Get(branch.v, "protected"))
                         THEN << "locked" >> ELSE << >>)
                        \o << " " >> \o Str(Get(branch.v, "name")))
                Render(branches) ==
                    Listing(branches, << "No branches found" >>,
                        [i \in 1..Len(branches.v) |-> Branch(branches.v[i])], << NL >>)
            IN OneCall("GET", RepoApi(owner, repo_name, << "/branches" >>), PyNone,
                       http[1], {200}, IntStr(http[1].status), Render(http[1].body)))

\* the ref lookup going on to the POST whatever the lookup answered
RefShaUnchecked(ref_response) ==
    IF ref_response.body.t = "dict" /\ "object" \in DOMAIN ref_response.body.v
       /\ ref_response.body.v["object"].t = "dict"
       /\ "sha" \in DOMAIN ref_response.body.v["object"].v
    THEN [failed |-> << >>, sha |-> ref_response.body.v["object"].v["sha"]]
    ELSE [failed |-> << >>, sha |-> PyNone]

\* create_branch between its two calls: `if ref_response.status_code != 200`
\* returns the error text, else `sha = ref_response.json()["object"]["sha"]`;
\* failed is the error text, << >> when the sha was read
RefSha(ref_response) ==
    IF ref_response.status # 200
    THEN [failed |-> StatusError(ref_response, IntStr(ref_response.status)),
          sha |-> PyNone]
    ELSE IF ref_response.body.t = "invalid"
    THEN [failed |-> ErrorText(<< "JSONDecodeError" >>), sha |-> PyNone]
    ELSE IF ref_response.body.t # "dict"
    THEN [failed |-> ErrorText(<< "TypeError" >>), sha |-> PyNone]
    ELSE IF "object" \notin DOMAIN ref_response.body.v
    THEN [failed |-> ErrorText(<< "KeyError" >>), sha |-> PyNone]
    ELSE IF ref_response.body.v["object"].t # "dict"
    THEN [failed |-> ErrorText(<< "TypeError" >>), sha |-> PyNone]
    ELSE IF "sha" \notin DOMAIN ref_response.body.v["object"].v
    THEN [failed |-> ErrorText(<< "KeyError" >>), sha |-> PyNone]
    ELSE [failed |-> << >>, sha |-> ref_response.body.v["object"].v["sha"]]

create_branch(arguments, http) ==
    IF NoToken THEN Returns(<< >>, TokenRequired)
    ELSE WithDict(arguments,
        LET repo == Get(arguments.v, "repo")
            owner == _parse_repo_string(repo)[1]
            repo_name == _parse_repo_string(repo)[2]
            branch == Get(arguments.v, "branch")
        IN
        IF BadRepo(owner, repo_name) THEN Returns(<< >>, InvalidRepo)
        ELSE IF ~Truthy(branch) THEN Returns(<< >>, Missing("branch parameter"))
        ELSE
            LET from_branch == GetOr(arguments.v, "from_branch", PyStr(<< "main" >>))
                ref_response == http[1]
                response == http[2]
                lookup == Call("GET",
                              RepoApi(owner, repo_name,
                                      << "/git/ref/heads/" >> \o Str(from_branch)),
                              PyNone, ref_response)
            IN
            IF ref_response.exc # ""
            THEN Returns(<< lookup >>, ErrorText(<< ref_response.exc >>))
            ELSE IF RefSha(ref_response).failed # << >>
            THEN Returns(<< lookup >>, RefSha(ref_response).failed)
            ELSE
                LET data == PyDict("ref" :> PyStr(<< "refs/heads/" >> \o Str(branch))
                                @@ "sha" :> RefSha(ref_response).sha)
                    creation == Call("POST",
                                    RepoApi(owner, repo_name, << "/git/refs" >>),
                                    data, response)
                IN
                Returns(<< lookup, creation >>,
                    IF response.exc # "" THEN ErrorText(<< response.exc >>)
                    ELSE IF response.status \notin {200, 201}
                    THEN StatusError(response, IntStr(response.status))
                    ELSE << CheckMark, " ", "Branch '" >> \o Str(branch)
                         \o << "' created from '" >> \o Str(from_branch) \o << "'" >>))

list_commits(arguments, http) ==
    WithDict(arguments,
        LET repo == Get(arguments.v, "repo")
            owner == _parse_repo_string(repo)[1]
            repo_name == _parse_repo_string(repo)[2]
        IN
        IF BadRepo(owner, repo_name) THEN Returns(<< >>, InvalidRepo)
        ELSE
            LET Commit(commit) ==
                    Block(commit, {"sha", "commit"}, Str(Get(commit.v, "sha")))
                Render(commits) ==
                    Listing(commits, << "No commits found" >>,
                        [i \in 1..Len(commits.v) |-> Commit(commits.v[i])], << NL, NL >>)
            IN OneCall("GET", RepoApi(owner, repo_name, << "/commits" >>), PyNone,
                       http[1], {200}, IntStr(http[1].status), Render(http[1].body)))

search_code(arguments, http) ==
    WithDict(arguments,
        LET query == Get(arguments.v, "query") IN
        IF ~Truthy(query) THEN Returns(<< >>, Missing("query parameter"))
        ELSE
            LET Item(item) ==
                    Block(item, {"repository", "path", "html_url"},
                        Str(Get(Get(item.v, "repository").v, "full_name"))
                        \o << "/" >> \o Str(Get(item.v, "path")) \o << NL, "  URL: " >>
                        \o Str(Get(item.v, "html_url")))
                Render(data) ==
                    IF data.t # "dict" THEN ErrorText(<< "AttributeError" >>)
                    ELSE LET items == GetOr(data.v, "items", PyList(<< >>))
                             total == GetOr(data.v, "total_count", PyInt(0))
                         IN
                         IF ~Truthy(items) THEN << "No code results found" >>
                         ELSE IF items.t # "list" THEN ErrorText(<< "TypeError" >>)
                         ELSE LET text ==
                                      Listing(items, << >>,
                                          [i \in 1..Len(items.v) |-> Item(items.v[i])],
                                          << NL, NL >>) IN
                              IF text[1] = Marker THEN text
                              ELSE << "Found " >> \o Str(total)
                                   \o << " code results (showing " >>
                                   \o IntStr(Len(items.v)) \o << "):", NL, NL >> \o text
            IN OneCall("GET", Api(<< "/search/code" >>), PyNone, http[1], {200},
                       IntStr(http[1].status), Render(http[1].body)))

list_releases(arguments, http) ==
    WithDict(arguments,
        LET repo == Get(arguments.v, "repo")
            owner == _parse_repo_string(repo)[1]
            repo_name == _parse_repo_string(repo)[2]
        IN
        IF BadRepo(owner, repo_name) THEN Returns(<< >>, InvalidRepo)
        ELSE
            LET Release(release) ==
                    Block(release, {"tag_name", "name", "html_url"},
                        Str(Get(release.v, "tag_name")) \o << " - " >>
                        \o Str(Get(release.v, "name")) \o << NL, "  URL: " >>
                        \o Str(Get(release.v, "html_url")))
                Render(releases) ==
                    Listing(releases, << "No releases found" >>,
                        [i \in 1..Len(releases.v) |-> Release(releases.v[i])], << NL, NL >>)
            IN OneCall("GET", RepoApi(owner, repo_name, << "/releases" >>), PyNone,
                       http[1], {200}, IntStr(http[1].status), Render(http[1].body)))

get_user_info(arguments, http) ==
    WithDict(arguments,
        LET username == Get(arguments.v, "username") IN
        IF ~Truthy(username) THEN Returns(<< >>, Missing("username parameter"))
        ELSE
            LET Render(user) ==
                    Subscript(user, {"login", "public_repos", "followers", "following",
                                     "created_at", "html_url"},
                        << "Username: " >> \o Str(Get(user.v, "login"))
                        \o << NL, "Name: " >> \o StrOr(Get(user.v, "name"), << "N/A" >>)
                        \o << NL, "Profile: " >> \o Str(Get(user.v, "html_url")))
            IN OneCall("GET", Api(<< "/users/" >> \o Str(username)), PyNone, http[1],
                       {200}, IntStr(http[1].status), Render(http[1].body)))

\* ----------------------------------------------------------------- dispatch
_extract_arguments(arguments) ==
    IF ~Truthy(arguments) THEN PyDict(EmptyDict)
    ELSE IF "arguments" \in DOMAIN arguments.v THEN arguments.v["arguments"]
    ELSE arguments

ToolNames ==
    {"list_repositories", "get_repo_details", "list_issues", "create_issue",
     "update_issue", "list_pull_requests", "create_pull_request",
     "get_file_contents", "create_or_update_file", "list_branches",
     "create_branch", "list_commits", "search_repositories", "search_code",
     "create_repository", "fork_repository", "list_releases", "get_user_info"}

\* the advertised tools but one
list_tools_short == ToolNames \ {"get_user_info"}

\* list_tools(): the names of the advertised tools
list_tools ==
    {"list_repositories", "get_repo_details", "list_issues", "create_issue",
     "update_issue", "list_pull_requests", "create_pull_request",
     "get_file_contents", "create_or_update_file", "list_branches",
     "create_branch", "list_commits", "search_repositories", "search_code",
     "create_repository", "fork_repository", "list_releases", "get_user_info"}

\* a name that is not registered handled as list_repositories
handle_tool_call_default(name, arguments, http) ==
    list_repositories(_extract_arguments(arguments), http)

\* name is a Python string; the registry is keyed by the tool names
handle_tool_call(name, arguments, http) ==
    LET args == _extract_arguments(arguments) IN
    CASE name = << "list_repositories" >> -> list_repositories(args, http)
      [] name = << "get_repo_details" >> -> get_repo_details(args, http)
      [] name = << "list_issues" >> -> list_issues(args, http)
      [] name = << "create_issue" >> -> create_issue(args, http)
      [] name = << "update_issue" >> -> update_issue(args, http)
      [] name = << "list_pull_requests" >> -> list_pull_requests(args, http)
      [] name = << "create_pull_request" >> -> create_pull_request(args, http)
      [] name = << "get_file_contents" >> -> get_file_contents(args, http)
      [] name = << "create_or_update_file" >> -> create_or_update_file(args, http)
      [] name = << "list_branches" >> -> list_branches(args, http)
      [] name = << "create_branch" >> -> create_branch(args, http)
      [] name = << "list_commits" >> -> list_commits(args, http)
      [] name = << "search_repositories" >> -> search_repositories(args, http)
      [] name = << "search_code" >> -> search_code(args, http)
      [] name = << "create_repository" >> -> create_repository(args, http)
      [] name = << "fork_repository" >> -> fork_repository(args, http)
      [] name = << "list_releases" >> -> list_releases(args, http)
      [] name = << "get_user_info" >> -> get_user_info(args, http)
      [] OTHER -> Returns(<< >>, ErrorText(<< "Unknown tool: " >> \o name))

\* ------------------------------------------- git_mcp1/backend/github_server
\* list_repositories of git_mcp1: it unwraps the arguments itself, and tells a
\* failed connection (httpx.RequestError) from any other exception
mcp1_list_repositories(arguments, http) ==
    IF ~Truthy(arguments) THEN Returns(<< >>, ErrorText(<< "Missing arguments" >>))
    ELSE
    LET inner == IF arguments.t = "dict" /\ "arguments" \in DOMAIN arguments.v
                 THEN arguments.v["arguments"] ELSE arguments
    IN
    IF ~Truthy(inner) \/ inner.t # "dict"
    THEN Returns(<< >>,
             ErrorText(<< "Invalid arguments: expected dictionary with username" >>))
    ELSE
    LET username == Get(inner.v, "username")
        response == http[1]
        call == Call("GET", Api(<< "/users/" >> \o Str(username) \o << "/repos" >>),
                     PyNone, response)
        Unexpected(exc) ==
            ErrorText(<< "Unexpected error processing GitHub response: ", exc >>)
        Repo(repo) ==
            Block(repo, {"full_name"},
                Str(Get(repo.v, "full_name")) \o << " (" >>
                \o Str(GetOr(repo.v, "visibility", PyStr(<< "public" >>)))
                \o << ") - " >>
                \o StrOr(Get(repo.v, "description"), << "No description" >>))
        data == response.body
    IN
    IF ~Truthy(username) THEN Returns(<< >>, Missing("username parameter"))
    ELSE Returns(<< call >>,
        IF response.exc # ""
        THEN ErrorText(<< "Failed to connect to GitHub API: ", response.exc >>)
        ELSE IF data.t = "invalid" THEN Unexpected("JSONDecodeError")
        ELSE IF response.status # 200
        THEN IF data.t # "dict" THEN Unexpected("AttributeError")
             ELSE ErrorText(Str(GetOr(data.v, "message",
                      PyStr(<< "GitHub API Error: " >> \o IntStr(response.status)))))
        ELSE IF data.t \notin {"list", "dict", "str"} THEN Unexpected("TypeError")
        ELSE IF ~Truthy(data)
        THEN << "No repositories found. Note: Only public repositories are visible." >>
        ELSE IF data.t # "list" THEN Unexpected("TypeError")
        ELSE LET blocks == [i \in 1..Len(data.v) |-> Repo(data.v[i])] IN
             IF \E i \in 1..Len(blocks) : ~blocks[i].ok THEN Unexpected("KeyError")
             ELSE Join([i \in 1..Len(blocks) |-> blocks[i].text], << NL, NL >>))

\* get_repo_details of git_mcp1: the request is made outside any try block, and
\* the answer is one content item per field
mcp1_get_repo_details(arguments, http) ==
    LET inner == IF Truthy(arguments) /\ "arguments" \in DOMAIN arguments.v
                 THEN arguments.v["arguments"] ELSE arguments
    IN
    IF ~Truthy(inner)
    THEN Returns(<< >>, ErrorText(<< "Missing 'repo' argument (owner/repo)." >>))
    ELSE IF inner.t # "dict" THEN Escapes(<< >>, "AttributeError")
    ELSE
    LET repo == Get(inner.v, "repo")
        owner == _parse_repo_string(repo)[1]
        repo_name == _parse_repo_string(repo)[2]
        response == http[1]
        call == Call("GET", RepoApi(owner, repo_name, << >>), PyNone, response)
        data == response.body
        Field(label, key) == << label, ": " >> \o Str(Get(data.v, key))
    IN
    IF BadRepo(owner, repo_name)
    THEN Returns(<< >>, ErrorText(<< "Invalid 'repo' format. Use 'owner/repo'." >>))
    ELSE IF response.exc # "" THEN Escapes(<< call >>, response.exc)
    ELSE IF response.status # 200
    THEN Returns(<< call >>,
             IF data.t # "dict" THEN ErrorText(IntStr(response.status))
             ELSE ErrorText(Str(GetOr(data.v, "message",
                                      PyStr(IntStr(response.status))))))
    ELSE IF data.t = "invalid" THEN Escapes(<< call >>, "JSONDecodeError")
    ELSE IF data.t # "dict" THEN Escapes(<< call >>, "AttributeError")
    ELSE [calls |-> << call >>, raised |-> "",
          content |-> << Field("full_name", "full_name"),
                         Field("description", "description"),
                         Field("private", "private"),
                         Field("html_url", "html_url"),
                         Field("stars", "stargazers_count"),
                         Field("forks", "forks_count"),
                         Field("open_issues", "open_issues_count") >>]

\* handle_tool_call of git_mcp1: two names, anything else is unknown
mcp1_handle_tool_call(name, arguments, http) ==
    IF name = << "list_repositories" >> THEN mcp1_list_repositories(arguments, http)
    ELSE IF name = << "get_repo_details" >> THEN mcp1_get_repo_details(arguments, http)
    ELSE Returns(<< >>, ErrorText(<< "Unknown tool: " >> \o name))

\* --------------------------------------------------------- git_mcp3/server
\* the text delete_repository returns when confirm is not set; "(!)" is the
\* warning sign U+26A0 U+FE0F that opens it
SafetyCheck(repo_name) ==
    << "(!)", "  ", "SAFETY CHECK: Deletion not confirmed!", NL, NL,
       "To delete repository '" >> \o repo_name
    \o << "', you must set confirm=True.", NL,
          "This action is IRREVERSIBLE and will permanently delete:", NL,
          "  - All code and commits", NL, "  - All issues and pull requests", NL,
          "  - All releases and assets", NL, "  - All wiki pages", NL, NL,
          "Please confirm you want to proceed." >>

\* the confirmation ignored
delete_repository_unconfirmed(repo_name, confirm, gh) ==
    [calls |-> << [op |-> "get_repo", arg |-> repo_name], [op |-> "delete", arg |-> repo_name] >>,
     text |-> << CheckMark, " Successfully deleted repository: " >> \o repo_name]

\* delete_repository(repo_name, confirm): calls is what was asked of the
\* PyGithub client, in order; gh tells which of those requests raises ("" for
\* none) and the login of the authenticated user
delete_repository(repo_name, confirm, gh) ==
    LET Failed(calls, exc) ==
            [calls |-> calls,
             text |-> << Marker, " Error deleting repository: ", exc >>]
        full == IF Contains(repo_name, "/") THEN repo_name
                ELSE gh.login \o << "/" >> \o repo_name
        lookups == IF Contains(repo_name, "/")
                   THEN << [op |-> "get_repo", arg |-> full] >>
                   ELSE << [op |-> "get_user", arg |-> << >>],
                           [op |-> "get_repo", arg |-> full] >>
    IN
    IF ~confirm THEN [calls |-> << >>, text |-> SafetyCheck(repo_name)]
    ELSE IF gh.fails = "get_user" /\ ~Contains(repo_name, "/")
    THEN Failed(<< lookups[1] >>, "BadCredentialsException")
    ELSE IF gh.fails = "get_repo" THEN Failed(lookups, "UnknownObjectException")
    ELSE IF gh.fails = "delete"
    THEN Failed(Append(lookups, [op |-> "delete", arg |-> full]), "GithubException")
    ELSE [calls |-> Append(lookups, [op |-> "delete", arg |-> full]),
          text |-> << CheckMark, " Successfully deleted repository: " >> \o full]

\* ------------------------------------------------- the remote side's answers
Resp(exc, status, body) == [exc |-> exc, status |-> status, body |-> body]

Sha1 == PyStr(<< "c0ffee1" >>)
Sha2 == PyStr(<< "deadbee" >>)

\* a JSON object carrying every field a handler reads from a single object
Object(sha) ==
    PyDict("html_url" :> PyStr(<< "https://github.com/o/r" >>)
        @@ "number" :> PyInt(7)
        @@ "full_name" :> PyStr(<< "o", "/", "r" >>)
        @@ "name" :> PyStr(<< "r" >>)
        @@ "title" :> PyStr(<< "Title" >>)
        @@ "state" :> PyStr(<< "open" >>)
        @@ "stargazers_count" :> PyInt(1)
        @@ "tag_name" :> PyStr(<< "v1" >>)
        @@ "path" :> PyStr(<< "README" >>)
        @@ "repository" :> PyDict("full_name" :> PyStr(<< "o", "/", "r" >>))
        @@ "sha" :> sha
        @@ "commit" :> PyDict("sha" :> sha)
        @@ "object" :> PyDict("sha" :> sha)
        @@ "head" :> PyDict("ref" :> PyStr(<< "dev" >>))
        @@ "base" :> PyDict("ref" :> PyStr(<< "main" >>))
        @@ "content" :> PyDict("html_url" :> PyStr(<< "https://github.com/o/r/f" >>))
        @@ "login" :> PyStr(<< "octocat" >>)
        @@ "public_repos" :> PyInt(1)
        @@ "followers" :> PyInt(0)
        @@ "following" :> PyInt(0)
        @@ "created_at" :> PyStr(<< "2020" >>))

\* the same object as an entry of the issues endpoint that is a pull request
PullRequestEntry ==
    PyDict(Object(Sha1).v @@ "pull_request" :> PyDict("url" :> PyStr(<< "pr" >>)))

\* another issue, one that has labels
LabelledIssue ==
    PyDict([Object(Sha1).v EXCEPT !["number"] = PyInt(8)]
        @@ "labels" :> PyList(<< PyDict("name" :> PyStr(<< "bug" >>)),
                                 PyDict("name" :> PyStr(<< "ui" >>)) >>))

\* a file as the contents endpoint serves it: the encoded content
FileObject(encoded) ==
    PyDict("content" :> PyStr(encoded) @@ "size" :> PyInt(5)
        @@ "sha" :> Sha1)

\* a search result page
SearchPage(items) == PyDict("total_count" :> PyInt(Len(items)) @@ "items" :> PyList(items))

Bodies ==
    {Object(Sha1), Object(Sha2), PyDict(EmptyDict),
     FileObject(<< >>),
     FileObject(<< "a", "A", "=", "=" >>),
     FileObject(<< "a", "G", "k", "=", NL >>),
     FileObject(<< "a", "M", NL, "O", "p", NL >>),
     FileObject(<< "a", "G", "l", "0", "N", "w", "=", "=" >>),
     FileObject(<< "a", "G", "k" >>),
     FileObject(<< "/", "w", "=", "=" >>),
     PyDict("message" :> PyStr(<< "Not Found" >>)),
     PyList(<< >>), PyList(<< Object(Sha1) >>),
     PyList(<< PullRequestEntry >>), PyList(<< Object(Sha1), PullRequestEntry >>),
     PyList(<< LabelledIssue, PullRequestEntry, Object(Sha1) >>),
     PyList(<< Object(Sha1), LabelledIssue >>),
     SearchPage(<< >>), SearchPage(<< Object(Sha1) >>),
     InvalidJson}

\* answers to a handler's first call: the call failing (httpx raises), or a
\* status with a body
FirstResponses ==
    {Resp("ConnectError", 0, InvalidJson)}
    \cup {Resp("", 200, b) : b \in Bodies}
    \cup {Resp("", 201, Object(Sha1)), Resp("", 202, Object(Sha1)),
          Resp("", 404, PyDict("message" :> PyStr(<< "Not Found" >>))),
          Resp("", 404, PyDict(EmptyDict)),
          Resp("", 500, InvalidJson)}

\* answers to create_branch's second call
SecondResponses ==
    {Resp("ConnectError", 0, InvalidJson),
     Resp("", 201, Object(Sha1)),
     Resp("", 201, InvalidJson),
     Resp("", 422, PyDict("message" :> PyStr(<< "Reference already exists" >>)))}

\* the answers met while an agent call is followed end to end
FewResponses ==
    {Resp("ConnectError", 0, InvalidJson), Resp("", 200, Object(Sha1)),
     Resp("", 200, PyList(<< >>)), Resp("", 200, PyList(<< Object(Sha1) >>)),
     Resp("", 200, PyList(<< PyDict([Object(Sha1).v EXCEPT
                                       !["title"] = PyStr(<< Marker, "build" >>)]) >>)),
     Resp("", 200, PyList(<< PullRequestEntry >>)),
     Resp("", 404, PyDict("message" :> PyStr(<< "Not Found" >>)))}
    \X {Resp("", 201, Object(Sha1)),
        Resp("", 422, PyDict("message" :> PyStr(<< "Reference already exists" >>)))}

\* GITHUB_TOKEN = os.getenv("GITHUB_TOKEN"): unset, set but empty, or a token
Tokens == {PyNone, PyStr(<< >>), PyStr(<< "ghp_token" >>)}

\* ==================================================================== agent
VARIABLES
    pc,             \* where the current run_github_agent call stands
    query,          \* its argument
    tool_name,      \* parse_command's first result
    arguments,      \* parse_command's second result
    procState,      \* stdio_client context: "none" | "running" | "exited"
    sessionState,   \* ClientSession context: "none" | "open" | "closed"
    initialized,    \* session.initialize() has completed
    pending,        \* the value a `return` statement has chosen, if any
    outcome,        \* terminal label of the call, "" while undecided
    result,         \* what the caller received
    request,        \* CallToolRequest on the channel, NoMessage when none
    response,       \* the server's answer on the channel, NoMessage when none
    callId,         \* number of run_github_agent calls started
    sessionId,      \* number of sessions opened so far; the newest is current
    parses,         \* parse_command evaluations made by the current call
    opened,         \* sessions opened by the current call
    sent            \* tool-invocation requests sent, as [call, session] pairs

\* the repository-reference splitter applied on its own, and the two other
\* servers of the repository
VARIABLES
    repo_ref,       \* the argument of _parse_repo_string
    split,          \* the pair it returned, << >> before the first application
    mcp1,           \* git_mcp1 server: the tool call it handled and what it gave
    mcp3,           \* git_mcp3 server: the delete_repository call it handled
    mgr,            \* git_mcp3 client: the cached MCPClientManager and what it started
    task            \* the coroutines that call connect() or disconnect()

serverVars == << GITHUB_TOKEN, httpLog, srvName, srvArguments, srvOutcome, srvPc >>
agentVars == << pc, query, tool_name, arguments, procState, sessionState,
                initialized, pending, outcome, result, callId, sessionId,
                parses, opened, sent >>
channelVars == << request, response >>
splitVars == << repo_ref, split, mcp1, mcp3, mgr, task >>
vars == << serverVars, agentVars, channelVars, splitVars >>

NoMessage == [kind |-> "none"]
NoOutcome == [calls |-> << >>, content |-> << >>, raised |-> ""]
NoValue == [raised |-> "", value |-> EmptyDict]

\* ------------------------------------------------------------ AgentResponse
\* a returned dict, or an exception that reaches the caller
Value(d) == [raised |-> "", value |-> d]
Raised(exc) == [raised |-> exc, value |-> EmptyDict]
Error(msg) == Value("error" :> msg)
EmptyQuery == Error(PyStr(<< "Empty query" >>))
InvalidCommand(q) ==
    Value("error" :> PyStr(<< "Invalid command format: " >> \o q)
       @@ "help" :> PyStr(<< "Use format: <command> <args>. Example: list_repositories octocat" >>))
ToolExecutionFailed(exc) == Error(PyStr(<< "Tool execution failed: ", exc >>))
ServerCommunicationFailed(exc) ==
    Error(PyStr(<< "Server communication failed: ", exc >>))

RECURSIVE Replace(_, _, _)
\* text.replace(old, "") for the two-atom old `<marker> `
Replace(text, a, b) ==
    IF Len(text) < 2 THEN text
    ELSE IF text[1] = a /\ text[2] = b THEN Replace(SubSeq(text, 3, Len(text)), a, b)
    ELSE << text[1] >> \o Replace(Tail(text), a, b)

\* the text of one content item: item["text"], item.text, or str(item)
ItemText(item) ==
    IF item.kind = "text" THEN item.text ELSE PyStr(<< "ImageContent(...)" >>)

RECURSIVE Extract(_, _)
\* the `for item in content` loop: results so far, or the error it returns
Extract(content, results) ==
    IF content = << >> THEN [error |-> PyNone, results |-> results]
    ELSE LET text == ItemText(Head(content)) IN
         IF text.t = "str" /\ text.v # << >>
         THEN IF Contains(text.v, Marker)
              THEN [error |-> PyStr(Replace(text.v, Marker, " ")), results |-> results]
              ELSE Extract(Tail(content), Append(results, text))
         ELSE Extract(Tail(content), results)

\* the texts returned as a sequence with their count, however many they are
ProcessResponseAsList(res) ==
    IF ~res.hasRoot \/ ~res.hasContent \/ res.content = << >>
    THEN Error(PyStr(<< "No results received from server" >>))
    ELSE LET x == Extract(res.content, << >>) IN
         IF x.error # PyNone THEN Error(x.error)
         ELSE IF x.results = << >> THEN Error(PyStr(<< "No data returned" >>))
         ELSE Value("success" :> PyBool(TRUE) @@ "data" :> PyList(x.results)
                    @@ "count" :> PyInt(Len(x.results)))

\* lines 297-337: what run_github_agent returns for the result of send_request
ProcessResponse(res) ==
    IF ~res.hasRoot THEN Error(PyStr(<< "Invalid response format: missing root" >>))
    ELSE IF ~res.hasContent
    THEN IF res.hasError THEN Error(res.error)
         ELSE Error(PyStr(<< "Invalid response format: missing content" >>))
    ELSE IF res.content = << >>
    THEN Error(PyStr(<< "No results received from server" >>))
    ELSE LET x == Extract(res.content, << >>) IN
         IF x.error # PyNone THEN Error(x.error)
         ELSE IF x.results = << >> THEN Error(PyStr(<< "No data returned" >>))
         ELSE IF Len(x.results) = 1
         THEN Value("success" :> PyBool(TRUE) @@ "data" :> x.results[1])
         ELSE Value("success" :> PyBool(TRUE) @@ "data" :> PyList(x.results)
                    @@ "count" :> PyInt(Len(x.results)))

\* ------------------------------------------------------------------ queries
CommandWords ==
    ToolNames \cup {"LIST_REPOSITORIES", "Get_Repo_Details", "Update_Issue", "frobnicate"}

\* argument tokens: the first is a repository reference or a user name, the
\* second an issue number, a title or a path, the others differ by position
FirstTokens == {<< "o", "/", "r" >>, << "octocat" >>}
SecondTokens == {<< "7" >>, << "0" >>, << "x" >>}
LaterToken(i) ==
    CASE i = 3 -> << "t", "3" >> [] i = 4 -> << "t", "4" >> [] i = 5 -> << "t", "5" >>
      [] i = 6 -> << "t", "6" >> [] i = 7 -> << "t", "7" >> [] i = 8 -> << "t", "8" >>
      [] OTHER -> << "t", "9" >>

ArgumentLists ==
    {<< >>} \cup {<< a >> : a \in FirstTokens}
    \cup {[i \in 1..n |-> IF i = 1 THEN a ELSE IF i = 2 THEN b ELSE LaterToken(i)] :
            << a, b, n >> \in FirstTokens \X SecondTokens \X (2..MaxArgs)}

\* the command line: words joined by single spaces
Line(word, args) == Join(<< << word >> >> \o args, << " " >>)

\* lines that are empty, blank, quoted, or end inside a quotation
OddLines ==
    {<< >>, << " " >>, << " ", " " >>, << "'", "'" >>,
     << " ", "list_repositories", " ", " ", "octocat", " " >>,
     << "list_repositories", " ", "'", " ", "octocat", " ", "'" >>,
     << "create_issue", " ", "o", "/", "r", " ", "'", "A", " ", "title", "'" >>,
     << "update_issue", " ", "o", "/", "r", " ", "'", " ", "7", " ", "'" >>,
     << "get_repo_details", " ", "'", "o", "/", "r" >>,
     << "get_repo_details", "'" >>,
     << "list_repositories", " ", "'", "'" >>}

\* every command word with every argument list: the inputs of parse_command
CommandLines ==
    {Line(w, args) : << w, args >> \in CommandWords \X ArgumentLists} \cup OddLines

\* the lines given to run_github_agent: each tool with all its arguments, with
\* its mandatory arguments, and with one argument too few; then the odd lines
Mandatory(w) ==
    CASE w \in {"create_issue", "update_issue", "get_file_contents", "create_branch"} -> 2
      [] w = "create_pull_request" -> 4
      [] w = "create_or_update_file" -> 5
      [] OTHER -> 1
Arguments(a, b, n) ==
    [i \in 1..n |-> IF i = 1 THEN a ELSE IF i = 2 THEN b ELSE LaterToken(i)]
Queries ==
    {Line(w, Arguments(<< "o", "/", "r" >>, << "7" >>, n)) :
        << w, n >> \in {<< t, k >> \in ToolNames \X (0..6) :
                          k \in {Mandatory(t) - 1, Mandatory(t), 6}}}
    \cup {Line("update_issue", Arguments(<< "o", "/", "r" >>, << "x" >>, 2)),
          Line("update_issue", Arguments(<< "o", "/", "r" >>, << "0" >>, 3)),
          Line("get_repo_details", << << "octocat" >> >>),
          Line("LIST_REPOSITORIES", << << "octocat" >> >>),
          Line("frobnicate", << << "octocat" >> >>)}
    \cup OddLines

\* ------------------------------------------------------------ agent actions
\* a caller invokes run_github_agent(q); the names of the call are fresh
Start(q) ==
    /\ pc \in {"idle", "done"}
    /\ callId < MaxCalls
    /\ pc' = "parsing"
    /\ query' = q
    /\ callId' = callId + 1
    /\ tool_name' = PyNone
    /\ arguments' = PyNone
    /\ procState' = "none"
    /\ sessionState' = "none"
    /\ initialized' = FALSE
    /\ pending' = NoValue
    /\ outcome' = ""
    /\ result' = NoValue
    /\ parses' = 0
    /\ opened' = 0
    /\ request' = NoMessage
    /\ response' = NoMessage
    /\ httpLog' = << >>
    /\ srvName' = << >>
    /\ srvArguments' = PyNone
    /\ srvOutcome' = NoOutcome
    /\ srvPc' = "ready"
    /\ UNCHANGED << GITHUB_TOKEN, sessionId, sent, splitVars >>

\* `if not query`, without the strip
EmptyCheckNoStrip(q) == q = << >>
\* line 256: `if not query or not query.strip()`
EmptyCheck(q) == q = << >> \/ Strip(q) = << >>

\* lines 255-267: the empty check, parse_command, the rejection
Parse ==
    /\ pc = "parsing"
    /\ IF EmptyCheck(query)
       THEN /\ pc' = "rejected"
            /\ pending' = EmptyQuery
            /\ UNCHANGED << tool_name, arguments, parses >>
       ELSE LET parsed == parse_command(query) IN
            /\ parses' = parses + 1
            /\ IF parsed.raised # ""
               THEN /\ pc' = "raised"
                    /\ pending' = Raised(parsed.raised)
                    /\ UNCHANGED << tool_name, arguments >>
               ELSE /\ tool_name' = parsed.tool_name
                    /\ arguments' = parsed.arguments
                    /\ IF ~Truthy(parsed.tool_name) \/ ~Truthy(parsed.arguments)
                       THEN pc' = "rejected" /\ pending' = InvalidCommand(query)
                       ELSE pc' = "dispatched" /\ pending' = NoValue
    /\ UNCHANGED << serverVars, channelVars, splitVars, query, procState,
                    sessionState, initialized, outcome, result, callId, sessionId,
                    opened, sent >>

\* lines 273-276: create_github_session() and entering stdio_client, which
\* starts the server process; either may raise, to the outer except
Launch ==
    /\ pc = "dispatched"
    /\ \/ /\ pc' = "spawned"
          /\ procState' = "running"
          /\ UNCHANGED << pending, outcome >>
       \/ \E exc \in {"OSError", "FileNotFoundError"} :
          /\ pc' = "closed"
          /\ pending' = ServerCommunicationFailed(exc)
          /\ outcome' = "protocol_error"
          /\ UNCHANGED procState
    /\ UNCHANGED << serverVars, channelVars, splitVars, query, tool_name, arguments,
                    sessionState, initialized, result, callId, sessionId, parses,
                    opened, sent >>

\* line 277: entering ClientSession; a failure unwinds through stdio_client
OpenSession ==
    /\ pc = "spawned"
    /\ \/ /\ pc' = "session_open"
          /\ sessionState' = "open"
          /\ sessionId' = sessionId + 1
          /\ opened' = opened + 1
          /\ UNCHANGED << pending, outcome >>
       \/ /\ pc' = "session_closed"
          /\ pending' = ServerCommunicationFailed("RuntimeError")
          /\ outcome' = "protocol_error"
          /\ UNCHANGED << sessionState, sessionId, opened >>
    /\ UNCHANGED << serverVars, channelVars, splitVars, query, tool_name, arguments,
                    procState, initialized, result, callId, parses, sent >>

\* line 280: the handshake; an exception goes to the inner except
Initialize ==
    /\ pc = "session_open"
    /\ \/ /\ pc' = "initialized"
          /\ initialized' = TRUE
          /\ UNCHANGED << pending, outcome >>
       \/ /\ pc' = "decided"
          /\ pending' = ToolExecutionFailed("McpError")
          /\ outcome' = "protocol_error"
          /\ UNCHANGED initialized
    /\ UNCHANGED << serverVars, channelVars, splitVars, query, tool_name, arguments,
                    procState, sessionState, result, callId, sessionId, parses,
                    opened, sent >>

\* the request written twice to the session
SendRequestTwice ==
    /\ pc = "initialized"
    /\ pc' = "awaiting_response"
    /\ request' = [kind |-> "call", name |-> tool_name.v, arguments |-> arguments]
    /\ sent' = sent \o << [call |-> callId, session |-> sessionId],
                          [call |-> callId, session |-> sessionId] >>
    /\ UNCHANGED << serverVars, splitVars, response, query, tool_name, arguments,
                    procState, sessionState, initialized, pending, outcome, result,
                    callId, sessionId, parses, opened >>

\* lines 284-293: the CallToolRequest is built and written to the session
SendRequest ==
    /\ pc = "initialized"
    /\ pc' = "awaiting_response"
    /\ request' = [kind |-> "call", name |-> tool_name.v, arguments |-> arguments]
    /\ sent' = Append(sent, [call |-> callId, session |-> sessionId])
    /\ UNCHANGED << serverVars, splitVars, response, query, tool_name, arguments,
                    procState, sessionState, initialized, pending, outcome, result,
                    callId, sessionId, parses, opened >>

\* ------------------------------------------------------------ server action
\* the content items the tool host sends back for what the handler gave: the
\* returned items, or one item with the exception's text when it raised
TextItem(text) == [kind |-> "text", text |-> text]
Envelope(out) ==
    [kind |-> "result", hasRoot |-> TRUE, hasContent |-> TRUE, hasError |-> FALSE,
     error |-> PyNone,
     content |-> IF out.raised # "" THEN << TextItem(PyStr(<< out.raised >>)) >>
                 ELSE [i \in 1..Len(out.content) |-> TextItem(PyStr(out.content[i]))]]

\* @server.call_tool(): the request on the channel is dispatched and answered;
\* http is what the remote API answers to the handler's calls
HandleToolCall(answers) ==
    /\ srvPc = "ready"
    /\ request.kind = "call"
    /\ \E http \in answers :
         LET out == handle_tool_call(request.name, request.arguments, http) IN
         /\ srvOutcome' = out
         /\ httpLog' = out.calls
         /\ response' = Envelope(out)
    /\ srvName' = request.name
    /\ srvArguments' = request.arguments
    /\ srvPc' = "returned"
    /\ request' = NoMessage
    /\ UNCHANGED << GITHUB_TOKEN, agentVars, splitVars >>

\* ------------------------------------------------------- agent, continued
\* what send_request may hand back for the answer on the channel: the answer,
\* or an envelope that lacks the expected fields
Deliveries(res) ==
    {res,
     [res EXCEPT !.hasRoot = FALSE],
     [res EXCEPT !.hasContent = FALSE],
     [res EXCEPT !.hasContent = FALSE, !.hasError = TRUE,
                 !.error = PyStr(<< "Method not found" >>)],
     [res EXCEPT !.content = << >>],
     [res EXCEPT !.content = << TextItem(PyNone) >>],
     [res EXCEPT !.content = res.content \o << [kind |-> "image", text |-> PyNone] >>]}

\* the terminal label of a processed response
Label(res) ==
    LET value == ProcessResponse(res).value IN
    IF "success" \in DOMAIN value THEN "success"
    ELSE IF res.hasRoot /\ ~res.hasContent /\ res.hasError THEN "remote_error"
    ELSE IF res.hasRoot /\ res.hasContent /\ Extract(res.content, << >>).error # PyNone
    THEN "remote_error"
    ELSE "protocol_error"

\* send_request raising leads back to another attempt
ReceiveOrRetry ==
    /\ pc = "awaiting_response"
    /\ \/ /\ response.kind = "result"
          /\ \E res \in Deliveries(response) :
               /\ pending' = ProcessResponse(res)
               /\ outcome' = Label(res)
          /\ pc' = "decided"
       \/ /\ response.kind = "none"
          /\ srvPc = "ready"
          /\ Len(sent) < 3
          /\ pc' = "initialized"
          /\ UNCHANGED << pending, outcome >>
    /\ UNCHANGED << serverVars, channelVars, splitVars, query, tool_name, arguments,
                    procState, sessionState, initialized, result, callId, sessionId,
                    parses, opened, sent >>

\* lines 293-341: send_request returns (or raises) and the response is
\* processed; every branch ends in a return inside the two with blocks
Receive ==
    /\ pc = "awaiting_response"
    /\ \/ /\ response.kind = "result"
          /\ \E res \in Deliveries(response) :
               /\ pending' = ProcessResponse(res)
               /\ outcome' = Label(res)
       \/ /\ pending' = ToolExecutionFailed("ClosedResourceError")
          /\ outcome' = "protocol_error"
    /\ pc' = "decided"
    /\ UNCHANGED << serverVars, channelVars, splitVars, query, tool_name, arguments,
                    procState, sessionState, initialized, result, callId, sessionId,
                    parses, opened, sent >>

\* ClientSession.__aexit__ run for a return taken only on the success path
CloseSessionOnSuccessOnly ==
    /\ pc = "decided"
    /\ pc' = "session_closed"
    /\ sessionState' = IF outcome = "success" THEN "closed" ELSE sessionState
    /\ UNCHANGED << serverVars, channelVars, splitVars, query, tool_name, arguments,
                    procState, initialized, pending, outcome, result, callId,
                    sessionId, parses, opened, sent >>

\* line 277, leaving `async with ClientSession(...)`: on return and on exception
CloseSession ==
    /\ pc = "decided"
    /\ pc' = "session_closed"
    /\ sessionState' = "closed"
    /\ UNCHANGED << serverVars, channelVars, splitVars, query, tool_name, arguments,
                    procState, initialized, pending, outcome, result, callId,
                    sessionId, parses, opened, sent >>

\* line 276, leaving `async with stdio_client(params)`: the process ends
CloseStdio ==
    /\ pc = "session_closed"
    /\ pc' = "closed"
    /\ procState' = "exited"
    /\ UNCHANGED << serverVars, channelVars, splitVars, query, tool_name, arguments,
                    sessionState, initialized, pending, outcome, result, callId,
                    sessionId, parses, opened, sent >>

\* the caller receives the chosen value, or the exception
Return ==
    /\ pc \in {"rejected", "raised", "closed"}
    /\ pc' = "done"
    /\ result' = pending
    /\ UNCHANGED << serverVars, channelVars, splitVars, query, tool_name, arguments,
                    procState, sessionState, initialized, pending, outcome, callId,
                    sessionId, parses, opened, sent >>

\* ------------------------------------------------------------- specifications
Quiet ==
    /\ httpLog = << >>
    /\ srvName = << >>
    /\ srvArguments = PyNone
    /\ srvOutcome = NoOutcome
    /\ srvPc = "ready"
    /\ pc = "idle"
    /\ query = << >>
    /\ tool_name = PyNone
    /\ arguments = PyNone
    /\ procState = "none"
    /\ sessionState = "none"
    /\ initialized = FALSE
    /\ pending = NoValue
    /\ outcome = ""
    /\ result = NoValue
    /\ request = NoMessage
    /\ response = NoMessage
    /\ callId = 0
    /\ sessionId = 0
    /\ parses = 0
    /\ opened = 0
    /\ sent = << >>
    /\ repo_ref = PyNone
    /\ split = << >>
    /\ mcp1 = [pc |-> "ready", name |-> << >>, arguments |-> PyNone,
               outcome |-> NoOutcome]
    /\ mcp3 = [pc |-> "ready", repo_name |-> << >>, confirm |-> FALSE,
               calls |-> << >>, text |-> << >>]
    /\ mgr = [session |-> 0, client_context |-> 0, session_context |-> 0, made |-> 0,
              started |-> {}, opened |-> {}, initialized |-> {}, closed |-> {},
              stopped |-> {}]
    /\ task = [t \in {"a", "b"} |-> [pc |-> "idle", id |-> 0, got |-> 0]]

\* the agent and the server process it starts
Init == GITHUB_TOKEN \in {PyNone, PyStr(<< "ghp_token" >>)} /\ Quiet

Next ==
    \/ \E q \in Queries : Start(q)
    \/ Parse
    \/ Launch
    \/ OpenSession
    \/ Initialize
    \/ SendRequest
    \/ HandleToolCall(FewResponses)
    \/ Receive
    \/ CloseSession
    \/ CloseStdio
    \/ Return

Spec == Init /\ [][Next]_vars

\* ------------------------------------------------------- the server on its own
\* a tool call that reaches handle_tool_call from any client of the server
Full(repo) ==
    PyDict("repo" :> repo
        @@ "username" :> PyStr(<< "octocat" >>)
        @@ "query" :> PyStr(<< "tla" >>)
        @@ "name" :> PyStr(<< "demo" >>)
        @@ "title" :> PyStr(<< "Title" >>)
        @@ "head" :> PyStr(<< "dev" >>)
        @@ "base" :> PyStr(<< "main" >>)
        @@ "path" :> PyStr(<< "README" >>)
        @@ "content" :> PyStr(<< "h", "i" >>)
        @@ "message" :> PyStr(<< "msg" >>)
        @@ "branch" :> PyStr(<< "topic" >>)
        @@ "issue_number" :> PyInt(7))

Without(d, k) == PyDict([x \in DOMAIN d.v \ {k} |-> d.v[x]])
Emptied(d, k) == PyDict([d.v EXCEPT ![k] = PyStr(<< >>)])

RepoRefs ==
    {PyStr(<< "o", "/", "r" >>), PyStr(<< "octocat" >>), PyStr(<< "/", "r" >>),
     PyStr(<< "o", "/" >>), PyStr(<< "/" >>), PyStr(<< "o", "/", "r", "/", "x" >>),
     PyStr(<< >>)}

GoodRepo == PyStr(<< "o", "/", "r" >>)

DirectArguments ==
    {PyNone, PyDict(EmptyDict), PyDict("arguments" :> Full(GoodRepo)),
     PyDict("arguments" :> PyNone),
     PyDict(Full(GoodRepo).v @@ "from_branch" :> PyStr(<< "dev" >>)
            @@ "sha" :> Sha2),
     PyDict([Full(GoodRepo).v EXCEPT !["issue_number"] = PyInt(0)]),
     PyDict([Full(GoodRepo).v EXCEPT !["content"] = PyStr(<< "h" >>)]),
     PyDict([Full(GoodRepo).v EXCEPT !["content"] = PyStr(<< "h", "U+00E9" >>)]),
     PyDict([Full(GoodRepo).v EXCEPT !["content"] = PyStr(<< "h", "i", "t", "7" >>)]),
     PyDict([Full(GoodRepo).v EXCEPT
               !["content"] = PyStr(<< "U+00E9", NL, "U+00E9", "7" >>)])}
    \cup {Full(r) : r \in RepoRefs}
    \cup {Without(Full(PyStr(<< "octocat" >>)), k) : k \in {"path", "title", "branch"}}
    \cup {Without(Full(GoodRepo), k) : k \in DOMAIN Full(GoodRepo).v}
    \cup {Emptied(Full(GoodRepo), k) : k \in DOMAIN Full(GoodRepo).v \ {"issue_number"}}

DirectNames == {<< n >> : n \in ToolNames} \cup {<< "delete_repository" >>, << >>}

DirectCall(name, args) ==
    /\ pc = "idle"
    /\ srvPc = "ready"
    /\ request.kind = "none"
    /\ mcp1.pc = "ready"
    /\ mcp3.pc = "ready"
    /\ request' = [kind |-> "call", name |-> name, arguments |-> args]
    /\ response' = NoMessage
    /\ srvPc' = "ready"
    /\ srvName' = << >>
    /\ srvArguments' = PyNone
    /\ srvOutcome' = NoOutcome
    /\ httpLog' = << >>
    /\ UNCHANGED << GITHUB_TOKEN, agentVars, splitVars >>

\* a tool call handled by the git_mcp1 server
Mcp1Call(name, args, http) ==
    /\ pc = "idle"
    /\ srvPc = "ready"
    /\ request.kind = "none"
    /\ mcp1.pc = "ready"
    /\ mcp3.pc = "ready"
    /\ mcp1' = [pc |-> "returned", name |-> name, arguments |-> args,
                outcome |-> mcp1_handle_tool_call(name, args, http)]
    /\ UNCHANGED << serverVars, agentVars, channelVars, repo_ref, split, mcp3, mgr, task >>

\* a delete_repository call handled by the git_mcp3 server, which starts only
\* with a token (server.py lines 15-17)
DeleteCall(repo_name, confirm, gh) ==
    /\ Truthy(GITHUB_TOKEN)
    /\ pc = "idle"
    /\ srvPc = "ready"
    /\ request.kind = "none"
    /\ mcp1.pc = "ready"
    /\ mcp3.pc = "ready"
    /\ LET out == delete_repository(repo_name, confirm, gh) IN
       mcp3' = [pc |-> "returned", repo_name |-> repo_name, confirm |-> confirm,
                calls |-> out.calls, text |-> out.text]
    /\ UNCHANGED << serverVars, agentVars, channelVars, repo_ref, split, mcp1, mgr, task >>

ServerInit == GITHUB_TOKEN \in Tokens /\ Quiet

ServerNext ==
    \/ /\ request.kind = "none" /\ mcp1.pc = "ready" /\ mcp3.pc = "ready"
       /\ \E name \in DirectNames, args \in DirectArguments : DirectCall(name, args)
    \/ HandleToolCall({http \in FirstResponses \X SecondResponses :
                          \/ http[1].body \in {Object(Sha1), Object(Sha2)}
                          \/ http[2] = Resp("ConnectError", 0, InvalidJson)})
    \/ /\ request.kind = "none" /\ mcp1.pc = "ready" /\ mcp3.pc = "ready"
       /\ \E name \in {<< "list_repositories" >>, << "get_repo_details" >>,
                        << "delete_repository" >>, << >>},
             args \in DirectArguments, http \in FirstResponses \X {Resp("", 0, InvalidJson)} :
             Mcp1Call(name, args, http)
    \/ /\ request.kind = "none" /\ mcp1.pc = "ready" /\ mcp3.pc = "ready"
       /\ \E repo_name \in {<< "o", "/", "r" >>, << "r" >>, << "/" >>, << >>},
             confirm \in BOOLEAN,
             fails \in {"", "get_user", "get_repo", "delete"} :
             DeleteCall(repo_name, confirm, [fails |-> fails, login |-> << "octocat" >>])

ServerSpec == ServerInit /\ [][ServerNext]_vars

\* ------------------------------------------------ parse_command on its own
ParseInit == GITHUB_TOKEN = PyNone /\ Quiet

ParseNext ==
    \/ \E q \in CommandLines : Start(q)
    \/ Parse

ParseSpec == ParseInit /\ [][ParseNext]_vars

\* ------------------------------------------- _parse_repo_string on its own
RepoAlphabet == {"o", "r", "/"}
RepoStrings ==
    {PyNone} \cup {PyStr(x) : x \in UNION {[1..n -> RepoAlphabet] : n \in 0..MaxRepoLen}}

ParseRepo(s) ==
    /\ repo_ref' = s
    /\ split' = _parse_repo_string(s)
    /\ UNCHANGED << serverVars, agentVars, channelVars, mcp1, mcp3, mgr, task >>

SplitNext == \E s \in RepoStrings : ParseRepo(s)

SplitSpec == ParseInit /\ [][SplitNext]_vars

\* -------------------------------- git_mcp3/streamlit_git_client: the manager
\* The manager is one object shared by every caller (st.cache_resource). Each
\* stdio_client context and the ClientSession made on it carry the number of
\* the connect() call that made them; 0 stands for None. A coroutine runs
\* alone from one await to the next, so each action is the code between two
\* awaits. __aexit__ is taken not to raise.
MaxConnects == 3

\* connect(), lines 46-55: the test of self.session, and for None the
\* stdio_client context, up to the await of its __aenter__
Connect(t) ==
    /\ task[t].pc \in {"idle", "returned", "failed"}
    /\ IF mgr.session # 0
       THEN /\ task' = [task EXCEPT ![t] = [pc |-> "returned", id |-> 0, got |-> mgr.session]]
            /\ mgr' = mgr
       ELSE /\ mgr.made < MaxConnects
            /\ mgr' = [mgr EXCEPT !.made = @ + 1, !.client_context = mgr.made + 1]
            /\ task' = [task EXCEPT ![t] = [pc |-> "entering_stdio", id |-> mgr.made + 1,
                                             got |-> 0]]
    /\ UNCHANGED << serverVars, agentVars, channelVars, repo_ref, split, mcp1, mcp3 >>

\* lines 55-58: the server process has started, or starting it raised; then
\* the ClientSession is made, up to the await of its __aenter__
StdioEntered(t) ==
    /\ task[t].pc = "entering_stdio"
    /\ \/ /\ mgr' = [mgr EXCEPT !.started = @ \cup {task[t].id},
                                !.session_context = task[t].id]
          /\ task' = [task EXCEPT ![t].pc = "entering_session"]
       \/ /\ task' = [task EXCEPT ![t].pc = "failed"]
          /\ mgr' = mgr
    /\ UNCHANGED << serverVars, agentVars, channelVars, repo_ref, split, mcp1, mcp3 >>

\* lines 58-60: the session is open and stored in self.session, or opening it
\* raised; then the await of initialize()
SessionEntered(t) ==
    /\ task[t].pc = "entering_session"
    /\ \/ /\ mgr' = [mgr EXCEPT !.opened = @ \cup {task[t].id}, !.session = task[t].id]
          /\ task' = [task EXCEPT ![t].pc = "initializing"]
       \/ /\ task' = [task EXCEPT ![t].pc = "failed"]
          /\ mgr' = mgr
    /\ UNCHANGED << serverVars, agentVars, channelVars, repo_ref, split, mcp1, mcp3 >>

\* lines 60-61: initialize() has completed and `return self.session` reads the
\* attribute as it is now, or initialize() raised
Initialized(t) ==
    /\ task[t].pc = "initializing"
    /\ \/ /\ mgr' = [mgr EXCEPT !.initialized = @ \cup {task[t].id}]
          /\ task' = [task EXCEPT ![t].pc = "returned", ![t].got = mgr.session]
       \/ /\ task' = [task EXCEPT ![t].pc = "failed"]
          /\ mgr' = mgr
    /\ UNCHANGED << serverVars, agentVars, channelVars, repo_ref, split, mcp1, mcp3 >>

\* disconnect(), lines 66-67: the session context, if there is one, is left
Disconnect(t) ==
    /\ task[t].pc \in {"idle", "returned", "failed"}
    /\ mgr' = [mgr EXCEPT !.closed = IF mgr.session_context # 0
                                     THEN @ \cup {mgr.session_context} ELSE @]
    /\ task' = [task EXCEPT ![t] = [pc |-> "closing_client", id |-> 0, got |-> 0]]
    /\ UNCHANGED << serverVars, agentVars, channelVars, repo_ref, split, mcp1, mcp3 >>

\* lines 68-70: the stdio context, if there is one, is left, which ends the
\* server process; then self.session = None
DisconnectClient(t) ==
    /\ task[t].pc = "closing_client"
    /\ mgr' = [mgr EXCEPT !.stopped = IF mgr.client_context # 0
                                      THEN @ \cup {mgr.client_context} ELSE @,
                          !.session = 0]
    /\ task' = [task EXCEPT ![t].pc = "idle"]
    /\ UNCHANGED << serverVars, agentVars, channelVars, repo_ref, split, mcp1, mcp3 >>

ManagerNext ==
    \E t \in {"a", "b"} :
        \/ Connect(t)
        \/ StdioEntered(t)
        \/ SessionEntered(t)
        \/ Initialized(t)
        \/ Disconnect(t)
        \/ DisconnectClient(t)

ManagerSpec == ParseInit /\ [][ManagerNext]_vars

\* ===================================================================== claims
\* a dict an AgentResponse may be: an error string, or data
WellFormed(d) ==
    \/ "error" \in DOMAIN d
    \/ "success" \in DOMAIN d /\ "data" \in DOMAIN d

\* C1: run_github_agent returns a well-formed result (a dict with an error
\* string or with data) for every query and never lets an exception reach
\* its caller.
C1_NeverRaises ==
    pc = "done" => result.raised = "" /\ WellFormed(result.value)

MutatingTools ==
    {<< "create_repository" >>, << "fork_repository" >>, << "create_issue" >>,
     << "update_issue" >>, << "create_pull_request" >>,
     << "create_or_update_file" >>, << "create_branch" >>}

\* C2: with no token configured every mutating tool, whatever its arguments,
\* returns the one text "GitHub token required for this operation" (marked as
\* an error) and makes no outbound HTTP call.
C2_NoTokenNoCall ==
    (srvPc = "returned" /\ GITHUB_TOKEN \in {PyNone, PyStr(<< >>)}
        /\ srvName \in MutatingTools)
    => /\ srvOutcome.raised = ""
       /\ srvOutcome.content
            = << << Marker, " ", "GitHub token required for this operation" >> >>
       /\ srvOutcome.calls = << >>
       /\ httpLog = << >>

C2_Witness ==
    /\ srvPc = "returned"
    /\ GITHUB_TOKEN = PyNone
    /\ srvName = << "create_or_update_file" >>
    /\ srvArguments = Full(GoodRepo)
    /\ srvOutcome.content = << TokenRequired >>
    /\ httpLog = << >>

\* C3: when run_github_agent has returned, the ClientSession it opened is
\* closed and the stdio channel (the server process) it started has exited,
\* whichever way the call ended; nothing is left open or running.
C3_SessionClosed ==
    pc = "done"
    => /\ sessionState # "open"
       /\ procState # "running"
       /\ opened > 0 => sessionState = "closed" /\ procState = "exited"

\* the call that failed in initialize() has returned
C3_Witness ==
    /\ pc = "done"
    /\ opened = 1
    /\ ~initialized
    /\ sessionState = "closed"
    /\ procState = "exited"
    /\ "error" \in DOMAIN result.value

\* the sha in a ref-lookup body, None when the body has none
ShaIn(body) ==
    IF body.t = "dict" /\ "object" \in DOMAIN body.v
       /\ body.v["object"].t = "dict" /\ "sha" \in DOMAIN body.v["object"].v
    THEN body.v["object"].v["sha"]
    ELSE PyNone

\* the arguments as the handler sees them
Flat(a) == IF a.t = "dict" /\ "arguments" \in DOMAIN a.v THEN a.v["arguments"] ELSE a

\* a string with exactly one "/", which is neither its first nor its last atom
OwnerSlashName(x) ==
    /\ x.t = "str"
    /\ \E i \in 2..(Len(x.v) - 1) :
         x.v[i] = "/" /\ \A j \in 1..Len(x.v) : j # i => x.v[j] # "/"

NonEmptyStr(x) == x.t = "str" /\ x.v # << >>

\* C4: create_branch issues the ref lookup (GET) first and the ref creation
\* (POST) second, the POST carrying the sha the GET returned; when the GET
\* fails the POST is not issued; with a token and valid arguments it makes
\* one or two calls, never the POST alone.
C4_BranchOrder ==
    (srvPc = "returned" /\ srvName = << "create_branch" >>)
    => LET n == Len(httpLog)
           a == Flat(srvArguments)
           lookupOk == /\ httpLog[1].resp.exc = ""
                       /\ httpLog[1].resp.status = 200
                       /\ ShaIn(httpLog[1].resp.body) # PyNone
       IN
       /\ n <= 2
       /\ n >= 1 => httpLog[1].method = "GET"
       /\ n = 2 => /\ httpLog[2].method = "POST"
                   /\ lookupOk
                   /\ Get(httpLog[2].json.v, "sha") = ShaIn(httpLog[1].resp.body)
       /\ (Truthy(GITHUB_TOKEN) /\ a.t = "dict" /\ OwnerSlashName(Get(a.v, "repo"))
              /\ NonEmptyStr(Get(a.v, "branch")))
          => /\ n \in {1, 2}
             /\ n = 2 <=> lookupOk

\* both calls made, the POST carrying the second sha
C4_Witness ==
    /\ srvPc = "returned"
    /\ srvName = << "create_branch" >>
    /\ Len(httpLog) = 2
    /\ httpLog[1].method = "GET"
    /\ httpLog[2].method = "POST"
    /\ httpLog[1].resp.body = Object(Sha2)
    /\ httpLog[2].json.v["sha"] = Sha2

\* the position of a program point on the path of one call
Rank(p) ==
    CASE p = "idle" -> 0
      [] p = "parsing" -> 1
      [] p \in {"rejected", "raised", "dispatched"} -> 2
      [] p = "spawned" -> 3
      [] p = "session_open" -> 4
      [] p = "initialized" -> 5
      [] p = "awaiting_response" -> 6
      [] p = "decided" -> 7
      [] p = "session_closed" -> 8
      [] p = "closed" -> 9
      [] OTHER -> 10

Labels == {"success", "protocol_error", "remote_error"}

\* the call in progress (or just returned) got a tool name and arguments
Dispatched == Truthy(tool_name) /\ Truthy(arguments)

\* the dict mixes data with an error
Mixed(d) == "error" \in DOMAIN d /\ ("success" \in DOMAIN d \/ "data" \in DOMAIN d)

C5_State ==
    /\ outcome \in Labels \cup {""}
    /\ outcome # "" => Dispatched
    /\ (Dispatched /\ pc \in {"decided", "session_closed", "closed", "done"})
       => outcome \in Labels
    /\ sessionState = "closed" => outcome \in Labels
    /\ ~Mixed(pending.value) /\ ~Mixed(result.value)
    /\ (pc = "done" /\ Dispatched)
       => /\ result.raised = ""
          /\ outcome = "success"
             <=> {"success", "data"} \subseteq DOMAIN result.value
          /\ outcome \in {"protocol_error", "remote_error"}
             <=> "error" \in DOMAIN result.value

C5_Step ==
    pc' # "parsing"
    => /\ Rank(pc') >= Rank(pc)
       /\ outcome # "" => outcome' = outcome

\* C5: a call moves only forward along idle, parsing, rejected or dispatched,
\* session open, awaiting response, outcome, closed; a dispatched call has
\* exactly one of the outcomes success, protocol_error, remote_error, fixed
\* before its session closes and never changed; no result holds both data and
\* an error.
C5_StateMachine == []C5_State /\ [][C5_Step]_vars

\* a sentinel-marked answer ended the call as a remote error
C5_Witness ==
    /\ pc = "done"
    /\ outcome = "remote_error"
    /\ sessionState = "closed"
    /\ result = Error(PyStr(<< "GitHub token required for this operation" >>))

\* the requests of call c
SentBy(c) == SelectSeq(sent, LAMBDA m : m.call = c)

\* C6: a call parses at most once, opens at most one session and sends at most
\* one request, exactly one once the handshake has succeeded and the request
\* line is passed; no request is sent again, and no session carries the
\* requests of two calls.
C6_OneOfEach ==
    /\ parses <= 1
    /\ opened <= 1
    /\ \A c \in 1..callId : Len(SentBy(c)) <= 1
    /\ (initialized /\ Rank(pc) >= 6) => Len(SentBy(callId)) = 1
    /\ ~initialized => Len(SentBy(callId)) = 0
    /\ \A i, j \in 1..Len(sent) :
         i # j => sent[i].session # sent[j].session /\ sent[i].call # sent[j].call

\* two calls have each sent their one request on their own session
C6_Witness ==
    /\ pc = "done"
    /\ callId = 2
    /\ Len(sent) = 2
    /\ sent[1].session # sent[2].session
    /\ parses = 1
    /\ opened = 1

\* the line holds nothing but spaces
Blank(q) == \A i \in 1..Len(q) : q[i] = " "

\* C7: for a query that is empty or blank, or that parse_command rejects, the
\* call returns the error "Empty query", respectively "Invalid command
\* format: <query>", and no process is started, no session opened, no request
\* sent and no HTTP call made.
C7_RejectedBeforeLaunch ==
    (Rank(pc) >= 2 /\ (Blank(query) \/ parse_command(query) = NoCommand))
    => /\ pc \in {"rejected", "done"}
       /\ pending.raised = ""
       /\ "error" \in DOMAIN pending.value
       /\ pending.value["error"]
            = IF Blank(query) THEN PyStr(<< "Empty query" >>)
              ELSE PyStr(<< "Invalid command format: " >> \o query)
       /\ pc = "done" => result = pending
       /\ procState = "none"
       /\ sessionState = "none"
       /\ opened = 0
       /\ SentBy(callId) = << >>
       /\ request = NoMessage
       /\ response = NoMessage
       /\ srvPc = "ready"
       /\ httpLog = << >>

\* a command with one token too few has been turned down
C7_Witness ==
    /\ pc = "done"
    /\ query = << "create_branch", " ", "o", "/", "r" >>
    /\ result.value["error"]
         = PyStr(<< "Invalid command format: ", "create_branch", " ", "o", "/", "r" >>)
    /\ procState = "none"

\* the blank line has been turned down
C7_WitnessBlank ==
    /\ pc = "done"
    /\ query = << " ", " " >>
    /\ result = EmptyQuery

\* the least number of tokens each command takes
MinTokens(cmd) ==
    CASE cmd \in {"create_issue", "update_issue", "get_file_contents", "create_branch"} -> 3
      [] cmd = "create_pull_request" -> 5
      [] cmd = "create_or_update_file" -> 6
      [] OTHER -> 2

\* C8: for each of the 18 commands, a line with fewer tokens than the
\* command's minimum makes parse_command return (None, None): no tool name,
\* no argument mapping, no exception.
C8_TooFewTokens ==
    (Rank(pc) >= 2 /\ ~Blank(query))
    => LET parts == Tokenize(query) IN
       (/\ parts # << >>
        /\ Len(parts[1]) = 1
        /\ Lower(parts[1])[1] \in ToolNames
        /\ Len(parts) < MinTokens(Lower(parts[1])[1]))
       => /\ parse_command(query) = NoCommand
          /\ pc = "rejected"
          /\ tool_name = PyNone
          /\ arguments = PyNone
          /\ pending.raised = ""

\* create_or_update_file with four of its five arguments is turned down
C8_Witness ==
    /\ pc = "rejected"
    /\ Len(Tokenize(query)) = 5
    /\ Tokenize(query)[1] = << "create_or_update_file" >>
    /\ tool_name = PyNone
    /\ arguments = PyNone

\* the positions of "/" in a string
SlashesAt(x) == {i \in 1..Len(x) : x[i] = "/"}

\* C9: _parse_repo_string gives (None, None) for the empty string, the text
\* left and right of the slash for a string with exactly one "/", and
\* (None, the string) for a string with no "/" or more than one.
C9_SplitCases ==
    split # << >>
    => IF repo_ref = PyNone \/ repo_ref.v = << >> THEN split = << PyNone, PyNone >>
       ELSE LET x == repo_ref.v IN
            IF Cardinality(SlashesAt(x)) = 1
            THEN \A i \in SlashesAt(x) :
                   split = << PyStr(SubSeq(x, 1, i - 1)), PyStr(SubSeq(x, i + 1, Len(x))) >>
            ELSE split = << PyNone, repo_ref >>

C9_Witness ==
    /\ repo_ref = PyStr(<< "o", "r", "/", "r" >>)
    /\ split = << PyStr(<< "o", "r" >>), PyStr(<< "r" >>) >>

C9_WitnessMany ==
    /\ repo_ref = PyStr(<< "o", "/", "r", "/" >>)
    /\ split = << PyNone, repo_ref >>

\* C10 as stated: with exactly one "/" the owner and the name are both
\* non-empty; with no "/" or more than one the owner is None.
C10_BothNonEmpty ==
    (split # << >> /\ repo_ref # PyNone)
    => IF Cardinality(SlashesAt(repo_ref.v)) = 1
       THEN Truthy(split[1]) /\ Truthy(split[2])
       ELSE split[1] = PyNone

\* C10: with exactly one "/" the owner and the name are both strings, the
\* owner non-empty exactly when the "/" is not the first character and the
\* name non-empty exactly when it is not the last; with no "/" or more than
\* one the owner is None.
C10_BothStrings ==
    (split # << >> /\ repo_ref # PyNone)
    => LET x == repo_ref.v IN
       IF Cardinality(SlashesAt(x)) = 1
       THEN /\ split[1].t = "str" /\ split[2].t = "str"
            /\ split[1].v # << >> <=> x[1] # "/"
            /\ split[2].v # << >> <=> x[Len(x)] # "/"
       ELSE split[1] = PyNone

\* a reference that starts with its slash has an empty owner
C10_Witness ==
    /\ repo_ref = PyStr(<< "/", "r" >>)
    /\ split = << PyStr(<< >>), PyStr(<< "r" >>) >>

\* C11: a tool name that is not registered makes handle_tool_call (git_mcp2
\* and git_mcp1) return exactly one content item, the marked text
\* "Unknown tool: <name>", whatever the arguments; nothing is raised and no
\* HTTP call is made.
C11_UnknownTool ==
    /\ (srvPc = "returned" /\ srvName \notin {<< n >> : n \in ToolNames})
       => /\ srvOutcome.raised = ""
          /\ srvOutcome.content = << << Marker, " ", "Unknown tool: " >> \o srvName >>
          /\ srvOutcome.calls = << >>
          /\ httpLog = << >>
    /\ (mcp1.pc = "returned"
          /\ mcp1.name \notin {<< "list_repositories" >>, << "get_repo_details" >>})
       => /\ mcp1.outcome.raised = ""
          /\ mcp1.outcome.content = << << Marker, " ", "Unknown tool: " >> \o mcp1.name >>
          /\ mcp1.outcome.calls = << >>

\* an unregistered name with arguments wrapped around None
C11_Witness ==
    /\ srvPc = "returned"
    /\ srvName = << "delete_repository" >>
    /\ srvArguments = PyDict("arguments" :> PyNone)
    /\ srvOutcome.content = << << Marker, " ", "Unknown tool: ", "delete_repository" >> >>

ListingTools ==
    {<< "list_repositories" >>, << "list_issues" >>, << "list_pull_requests" >>,
     << "list_branches" >>, << "list_commits" >>, << "list_releases" >>}
SearchTools == {<< "search_repositories" >>, << "search_code" >>}

\* the answer is a 200 that carries no item: an empty list for a listing, a
\* result page whose items are empty or absent for a search
ZeroItems(name, resp) ==
    /\ resp.exc = ""
    /\ resp.status = 200
    /\ IF name \in ListingTools THEN resp.body = PyList(<< >>)
       ELSE /\ resp.body.t = "dict"
            /\ GetOr(resp.body.v, "items", PyList(<< >>)) = PyList(<< >>)

\* the texts that say that nothing was found
NothingFound ==
    {<< "No repositories found" >>, << "No issues found" >>,
     << "No pull requests found" >>, << "No branches found" >>,
     << "No commits found" >>, << "No releases found" >>,
     << "No code results found" >>,
     << "Found ", "0", " repositories (showing ", "0", "):", NL, NL >>}

RECURSIVE BlockNumbers(_)
\* the issue numbers that head the blocks of a listing, in the text's order
BlockNumbers(text) ==
    IF Len(text) < 2 THEN << >>
    ELSE IF Head(text) = "#" THEN << text[2] >> \o BlockNumbers(Tail(text))
    ELSE BlockNumbers(Tail(text))

\* the entries are issues or pull requests as the remote side serves them
IssueEntries(body) ==
    /\ body.t = "list"
    /\ \A i \in 1..Len(body.v) :
         /\ body.v[i].t = "dict"
         /\ {"number", "title", "state", "html_url"} \subseteq DOMAIN body.v[i].v

\* C13: the text list_issues returns has one block for each entry the remote
\* side returned without a "pull_request" field, in the order returned, and
\* no block for an entry with that field.
C13_IssuesOnly ==
    (srvPc = "returned" /\ srvName = << "list_issues" >> /\ Len(httpLog) = 1
        /\ httpLog[1].resp.exc = "" /\ httpLog[1].resp.status = 200
        /\ IssueEntries(httpLog[1].resp.body))
    => LET entries == httpLog[1].resp.body.v
           issues == SelectSeq(entries, LAMBDA e : "pull_request" \notin DOMAIN e.v)
       IN
       /\ srvOutcome.raised = ""
       /\ Len(srvOutcome.content) = 1
       /\ ~Contains(srvOutcome.content[1], Marker)
       /\ BlockNumbers(srvOutcome.content[1])
            = [i \in 1..Len(issues) |-> IntStr(issues[i].v["number"].v)[1]]

\* an issue, a pull request and another issue were served: two blocks
C13_Witness ==
    /\ srvPc = "returned"
    /\ srvName = << "list_issues" >>
    /\ Len(httpLog) = 1
    /\ httpLog[1].resp = Resp("", 200, PyList(<< LabelledIssue, PullRequestEntry, Object(Sha1) >>))
    /\ BlockNumbers(srvOutcome.content[1]) = << "8", "7" >>

\* texts of zero to five bytes, with and without a two-byte character
Texts ==
    {<< >>, << "h" >>, << "h", "i" >>, << "h", "U+00E9" >>, << "h", "i", "t", "7" >>,
     << "U+00E9", NL, "U+00E9", "7" >>}

\* the line breaks the contents endpoint puts into the encoded content
Unbroken(s) == SelectSeq(s, LAMBDA c : c # NL)

\* C14: base64 round trip. What create_or_update_file sends as "content" is
\* valid base64 that decodes to the UTF-8 bytes of the content it was given;
\* the text get_file_contents returns is its header followed by the text whose
\* UTF-8 bytes the served "content" encodes.
C14_RoundTrip ==
    /\ (srvPc = "returned" /\ srvName = << "create_or_update_file" >> /\ Len(httpLog) = 1)
       => LET encoded == httpLog[1].json.v["content"].v
              given == Get(_extract_arguments(srvArguments).v, "content").v
          IN /\ IsB64(encoded)
             /\ B64Decode(encoded) = Utf8Encode(given)
    /\ (srvPc = "returned" /\ srvName = << "get_file_contents" >> /\ Len(httpLog) = 1
          /\ httpLog[1].resp.exc = "" /\ httpLog[1].resp.status = 200
          /\ httpLog[1].resp.body.t = "dict"
          /\ {"content", "size", "sha"} \subseteq DOMAIN httpLog[1].resp.body.v
          /\ httpLog[1].resp.body.v["content"].t = "str")
       => LET data == httpLog[1].resp.body.v
              path == Get(_extract_arguments(srvArguments).v, "path")
          IN \A x \in Texts :
                Unbroken(data["content"].v) = B64Encode(Utf8Encode(x))
                => srvOutcome.content
                     = << << "File: " >> \o Str(path) \o << NL, "Size: " >>
                          \o Str(data["size"]) \o << " bytes", NL, "SHA: " >>
                          \o Str(data["sha"]) \o << NL, NL >> \o x >>

\* a file served in two lines, holding a two-byte character, is read
C14_Witness ==
    /\ srvPc = "returned"
    /\ Len(httpLog) = 1
    /\ srvName = << "get_file_contents" >>
    /\ httpLog[1].resp = Resp("", 200, FileObject(<< "a", "M", NL, "O", "p", NL >>))
    /\ Len(srvOutcome.content) = 1
    /\ SubSeq(srvOutcome.content[1], Len(srvOutcome.content[1]) - 1,
              Len(srvOutcome.content[1])) = << "h", "U+00E9" >>

\* a file of two bytes is written
C14_WitnessWrite ==
    /\ srvPc = "returned"
    /\ Len(httpLog) = 1
    /\ srvName = << "create_or_update_file" >>
    /\ httpLog[1].json.v["content"] = PyStr(<< "a", "G", "k", "=" >>)

\* the texts of the content items of the answer on the channel that carry the
\* marker, in order
MarkedTexts ==
    SelectSeq([i \in 1..Len(response.content) |-> response.content[i].text],
              LAMBDA t : t.t = "str" /\ Contains(t.v, Marker))

\* a text without its markers and spaces
Letters(text) == SelectSeq(text, LAMBDA c : c # Marker /\ c # " ")

\* C15: when a content item of the response carries the marker, the call
\* returns an error whose message is that item's text with the marker
\* stripped: no marker is left in it, wherever the marker stood in the text.
C15_MarkerStripped ==
    (pc = "done" /\ response.kind = "result" /\ MarkedTexts # << >>
        /\ result = ProcessResponse(response))
    => /\ result.raised = ""
       /\ "error" \in DOMAIN result.value
       /\ ~Contains(result.value["error"].v, Marker)
       /\ Letters(result.value["error"].v) = Letters(MarkedTexts[1].v)

\* arguments that are absent at some level: None, {} or {"arguments": None}
Absent == {PyNone, PyDict(EmptyDict), PyDict("arguments" :> PyNone)}

\* C16: _extract_arguments returns the innermost mapping of flat or wrapped
\* arguments, and the empty mapping when the arguments are absent at any
\* level; it never returns None, and the handler that consumes its result
\* does not fail.
C16_InnermostMapping ==
    srvPc = "returned"
    => LET args == _extract_arguments(srvArguments) IN
       /\ args.t = "dict"
       /\ srvArguments \in Absent => args = PyDict(EmptyDict) /\ srvOutcome.raised = ""
       /\ (srvArguments.t = "dict" /\ srvArguments \notin Absent)
          => args = IF "arguments" \in DOMAIN srvArguments.v
                    THEN srvArguments.v["arguments"] ELSE srvArguments

\* out is exactly one marked item that ends with what the remote answer calls
\* for: its "message" when the body carries one, else its status code
RemoteError(out, resp) ==
    LET m == IF resp.body.t = "dict" /\ "message" \in DOMAIN resp.body.v
             THEN Str(resp.body.v["message"]) ELSE IntStr(resp.status)
    IN /\ out.raised = ""
       /\ Len(out.content) = 1
       /\ Len(out.content[1]) >= 1 + Len(m)
       /\ out.content[1][1] = Marker
       /\ SubSeq(out.content[1], Len(out.content[1]) - Len(m) + 1, Len(out.content[1])) = m

\* one content item, carrying no marker
Summary(out) ==
    out.raised = "" /\ Len(out.content) >= 1
    /\ \A i \in 1..Len(out.content) : ~Contains(out.content[i], Marker)

\* what the call just handled would have given had its last answer carried
\* the status s
WithStatus(s) ==
    LET n == Len(httpLog)
        last == [httpLog[n].resp EXCEPT !.status = s]
        first == IF n = 1 THEN last ELSE httpLog[1].resp
    IN handle_tool_call(srvName, srvArguments, << first, last >>)

\* C17: in every handler an answer with a status outside 2xx gives exactly one
\* marked error item, whose text is the remote "message" when the body has
\* one and the status code otherwise (also when the body is no JSON object);
\* and an answer with any 2xx status is summarised, not reported as an error.
C17_StatusMapping ==
    /\ (srvPc = "returned" /\ httpLog # << >> /\ httpLog[Len(httpLog)].resp.exc = "")
       => LET resp == httpLog[Len(httpLog)].resp IN
          /\ resp.status \notin 200..299
             => RemoteError(srvOutcome, resp)
          /\ (resp.status \in 200..299 /\ \E s \in 200..299 : Summary(WithStatus(s)))
             => Summary(srvOutcome)
    /\ (mcp1.pc = "returned" /\ mcp1.outcome.calls # << >>
          /\ mcp1.outcome.calls[1].resp.exc = ""
          /\ mcp1.outcome.calls[1].resp.status \notin 200..299)
       => RemoteError(mcp1.outcome, mcp1.outcome.calls[1].resp)

\* out is one marked item that names the failure as a failure to connect, the
\* wording no remote error text is given
CouldNotConnect(out) ==
    /\ out.raised = ""
    /\ Len(out.content) = 1
    /\ Len(out.content[1]) >= 3
    /\ SubSeq(out.content[1], 1, 3) = << Marker, " ", "Failed to connect to GitHub API: " >>

\* C18: in every handler of every server a failure of the outbound call at
\* network level becomes, inside the handler, an error result of one
\* "could not connect" kind that differs from a remote error; it never leaves
\* the handler as an exception.
C18_NetworkFailure ==
    /\ (mcp1.pc = "returned" /\ mcp1.outcome.calls # << >>
          /\ mcp1.outcome.calls[1].resp.exc # "")
       => CouldNotConnect(mcp1.outcome)
    /\ (srvPc = "returned" /\ httpLog # << >> /\ httpLog[Len(httpLog)].resp.exc # "")
       => CouldNotConnect(srvOutcome)

\* the tools that take a repository reference
RepoTools ==
    {<< "get_repo_details" >>, << "list_issues" >>, << "list_pull_requests" >>,
     << "get_file_contents" >>, << "list_branches" >>, << "list_commits" >>,
     << "list_releases" >>, << "fork_repository" >>, << "create_issue" >>,
     << "update_issue" >>, << "create_pull_request" >>, << "create_or_update_file" >>,
     << "create_branch" >>}

\* the arguments a tool cannot do without, among username, query, title, path
\* and branch
Required(name) ==
    CASE name \in {<< "list_repositories" >>, << "get_user_info" >>} -> {"username"}
      [] name \in {<< "search_repositories" >>, << "search_code" >>} -> {"query"}
      [] name \in {<< "create_issue" >>, << "create_pull_request" >>} -> {"title"}
      [] name = << "get_file_contents" >> -> {"path"}
      [] name = << "create_or_update_file" >> -> {"path", "branch"}
      [] name = << "create_branch" >> -> {"branch"}
      [] OTHER -> {}

\* the call just handled had arguments the handler could read, and a token if
\* the tool needs one
Readable ==
    /\ srvPc = "returned"
    /\ _extract_arguments(srvArguments).t = "dict"
    /\ srvName \in MutatingTools => Truthy(GITHUB_TOKEN)

\* C19: a tool that takes a repository reference returns the text "Invalid
\* repo format" and makes no outbound call whenever _parse_repo_string gives
\* no owner or no name (for the mutating tools: when a token is set); and a
\* missing required argument (username, query, title, path, branch) is
\* reported before any call is made.
C19_ValidatedFirst ==
    /\ (Readable /\ srvName \in RepoTools
          /\ LET repo == Get(_extract_arguments(srvArguments).v, "repo") IN
             \E i \in 1..2 : _parse_repo_string(repo)[i] \in {PyNone, PyStr(<< >>)})
       => /\ srvOutcome = Returns(<< >>, InvalidRepo)
          /\ httpLog = << >>
    /\ (Readable
          /\ \E k \in Required(srvName) :
                ~Truthy(Get(_extract_arguments(srvArguments).v, k)))
       => /\ srvOutcome.raised = ""
          /\ Len(srvOutcome.content) = 1
          /\ \/ srvOutcome.content[1] = InvalidRepo
             \/ SubSeq(srvOutcome.content[1], 1, 3) = << Marker, " ", "Missing" >>
          /\ httpLog = << >>

\* a file is asked for with a reference that has no slash and with no path:
\* the reference is what is reported
C19_Witness ==
    /\ srvPc = "returned"
    /\ srvName = << "get_file_contents" >>
    /\ srvArguments = Without(Full(PyStr(<< "octocat" >>)), "path")
    /\ srvOutcome.content = << InvalidRepo >>
    /\ httpLog = << >>

\* a branch is to be created, with a token, in a repository without a name
C19_WitnessMutating ==
    /\ srvPc = "returned"
    /\ srvName = << "create_branch" >>
    /\ Truthy(GITHUB_TOKEN)
    /\ srvArguments = Full(PyStr(<< "o", "/" >>))
    /\ srvOutcome.content = << InvalidRepo >>

\* C20: delete_repository of git_mcp3 deletes nothing unless confirm is True:
\* with confirm False it returns the safety-check text and asks nothing of
\* the GitHub client, whatever repo_name is; a deletion is requested only in
\* a confirmed call.
C20_ConfirmedOnly ==
    mcp3.pc = "returned"
    => /\ ~mcp3.confirm
          => /\ mcp3.calls = << >>
             /\ mcp3.text
                  = << "(!)", "  ", "SAFETY CHECK: Deletion not confirmed!", NL, NL,
                       "To delete repository '" >> \o mcp3.repo_name
                    \o << "', you must set confirm=True.", NL,
                          "This action is IRREVERSIBLE and will permanently delete:", NL,
                          "  - All code and commits", NL,
                          "  - All issues and pull requests", NL,
                          "  - All releases and assets", NL, "  - All wiki pages", NL, NL,
                          "Please confirm you want to proceed." >>
       /\ (\E i \in 1..Len(mcp3.calls) : mcp3.calls[i].op = "delete") => mcp3.confirm

\* an unconfirmed call that names a repository in full
C20_Witness ==
    /\ mcp3.pc = "returned"
    /\ ~mcp3.confirm
    /\ mcp3.repo_name = << "o", "/", "r" >>
    /\ mcp3.calls = << >>
    /\ mcp3.text[3] = "SAFETY CHECK: Deletion not confirmed!"

\* a confirmed call, for comparison: the repository is looked up and deleted
C20_WitnessConfirmed ==
    /\ mcp3.pc = "returned"
    /\ mcp3.confirm
    /\ mcp3.repo_name = << "r" >>
    /\ mcp3.calls = << [op |-> "get_user", arg |-> << >>],
                       [op |-> "get_repo", arg |-> << "octocat", "/", "r" >>],
                       [op |-> "delete", arg |-> << "octocat", "/", "r" >>] >>

\* C21: a value returned by run_github_agent has two arms: either the key
\* "error", or "success" (True) together with "data", never both; "data" is
\* one string, without "count", when one text was received, and otherwise a
\* sequence of strings with "count" equal to its length.
C21_TwoArmed ==
    (pc = "done" /\ result.raised = "")
    => LET v == result.value IN
       /\ ("error" \in DOMAIN v) # ("success" \in DOMAIN v)
       /\ "error" \in DOMAIN v => {"success", "data", "count"} \cap DOMAIN v = {}
       /\ "success" \in DOMAIN v
          => /\ v["success"] = PyBool(TRUE)
             /\ "data" \in DOMAIN v
             /\ \/ v["data"].t = "str" /\ "count" \notin DOMAIN v
                \/ /\ v["data"].t = "list"
                   /\ Len(v["data"].v) # 1
                   /\ \A i \in 1..Len(v["data"].v) : v["data"].v[i].t = "str"
                   /\ "count" \in DOMAIN v
                   /\ v["count"] = PyInt(Len(v["data"].v))

\* a call that received two items returns both, with their count
C21_Witness ==
    /\ pc = "done"
    /\ result.raised = ""
    /\ "count" \in DOMAIN result.value
    /\ result.value["count"] = PyInt(2)
    /\ result.value["data"].t = "list"

\* a call that received one text returns it as a string
C21_WitnessSingle ==
    /\ pc = "done"
    /\ result.raised = ""
    /\ "success" \in DOMAIN result.value
    /\ result.value["data"].t = "str"

\* C22: a mutating handler validates its arguments and the shape of the
\* repository reference before it looks at the token: called with a
\* reference that has no owner or no name, it returns the validation text
\* "Invalid repo format" whether or not a token is set.
C22_ValidationBeforeToken ==
    (srvPc = "returned" /\ srvName \in MutatingTools \cap RepoTools
        /\ _extract_arguments(srvArguments).t = "dict"
        /\ LET repo == Get(_extract_arguments(srvArguments).v, "repo") IN
           \E i \in 1..2 : _parse_repo_string(repo)[i] \in {PyNone, PyStr(<< >>)})
    => /\ srvOutcome = Returns(<< >>, InvalidRepo)
       /\ httpLog = << >>

\* the argument names of each command in the documented order, the optional
\* ones last
ArgNames(cmd) ==
    CASE cmd \in {"list_repositories", "get_user_info"} -> << "username" >>
      [] cmd \in {"get_repo_details", "fork_repository", "list_branches",
                  "list_releases"} -> << "repo" >>
      [] cmd = "list_issues" -> << "repo", "state", "labels" >>
      [] cmd = "create_issue" -> << "repo", "title", "body" >>
      [] cmd = "update_issue" -> << "repo", "issue_number", "title", "body", "state" >>
      [] cmd = "list_pull_requests" -> << "repo", "state" >>
      [] cmd = "create_pull_request" -> << "repo", "title", "head", "base", "body" >>
      [] cmd = "get_file_contents" -> << "repo", "path", "branch" >>
      [] cmd = "create_or_update_file"
           -> << "repo", "path", "content", "message", "branch", "sha" >>
      [] cmd = "create_branch" -> << "repo", "branch", "from_branch" >>
      [] cmd = "list_commits" -> << "repo", "branch" >>
      [] cmd = "search_repositories" -> << "query", "sort", "order" >>
      [] cmd = "search_code" -> << "query" >>
      [] cmd = "create_repository" -> << "name", "description", "private" >>
      [] OTHER -> << >>

\* C23: for a line whose first token, lower-cased, is one of the commands and
\* which has at least the command's minimum of tokens, parse_command returns
\* that command and a mapping that binds the tokens after the first to the
\* command's argument names in the documented order: an optional name is
\* bound exactly when its token is there, and further tokens are ignored.
C23_PositionalBinding ==
    (pc \in {"rejected", "raised", "dispatched"} /\ ~Blank(query))
    => LET parts == Tokenize(query) IN
       (/\ parts # << >>
        /\ Len(parts[1]) = 1
        /\ Lower(parts[1])[1] \in ToolNames
        /\ Len(parts) >= MinTokens(Lower(parts[1])[1]))
       => LET names == ArgNames(Lower(parts[1])[1])
              n == IF Len(parts) - 1 < Len(names) THEN Len(parts) - 1 ELSE Len(names)
          IN /\ pc = "dispatched"
             /\ tool_name = PyStr(Lower(parts[1]))
             /\ arguments.t = "dict"
             /\ DOMAIN arguments.v = {names[i] : i \in 1..n}
             /\ \A i \in 1..n :
                  CASE names[i] = "issue_number" -> arguments.v[names[i]].t = "int"
                    [] names[i] = "private" -> arguments.v[names[i]].t = "bool"
                    [] OTHER -> arguments.v[names[i]] = PyStr(parts[i + 1])

\* C24: when the issues endpoint serves a list that is not empty and holds
\* only pull requests, list_issues returns the text "No issues found", not
\* an empty text, and run_github_agent returns it as a success with zero
\* items, not as an error.
C24_OnlyPullRequests ==
    (srvPc = "returned" /\ srvName = << "list_issues" >> /\ Len(httpLog) = 1
        /\ httpLog[1].resp.exc = "" /\ httpLog[1].resp.status = 200
        /\ httpLog[1].resp.body.t = "list" /\ httpLog[1].resp.body.v # << >>
        /\ \A i \in 1..Len(httpLog[1].resp.body.v) :
              "pull_request" \in DOMAIN httpLog[1].resp.body.v[i].v)
    => /\ srvOutcome.content = << << "No issues found" >> >>
       /\ (pc = "done" /\ result = ProcessResponse(response))
          => /\ "success" \in DOMAIN result.value
             /\ result.value["data"] = PyStr(<< "No issues found" >>)

\* the call just handled named a tool and gave it every argument, with a
\* well-formed repository reference, and a token if the tool needs one
AllGiven ==
    /\ Readable
    /\ srvName \in {<< n >> : n \in ToolNames}
    /\ LET args == _extract_arguments(srvArguments).v IN
       /\ DOMAIN Full(GoodRepo).v \subseteq DOMAIN args
       /\ \A k \in DOMAIN Full(GoodRepo).v :
            args[k] \notin {PyNone, PyStr(<< >>), PyInt(0)}
       /\ \A i \in 1..2 : _parse_repo_string(args["repo"])[i] \notin {PyNone, PyStr(<< >>)}

\* C25: a handler makes at most one outbound call (create_branch at most
\* two), exactly one when its arguments and the token pass (create_branch:
\* the second only after the first succeeded), and makes no call again after
\* a status outside 2xx or a failure of the transport.
C25_CallCount ==
    srvPc = "returned"
    => /\ Len(httpLog) <= IF srvName = << "create_branch" >> THEN 2 ELSE 1
       /\ AllGiven => Len(httpLog) >= 1
       /\ \A i \in 1..Len(httpLog) :
            (httpLog[i].resp.exc # "" \/ httpLog[i].resp.status \notin 200..299)
            => i = Len(httpLog)
       /\ Len(httpLog) = 2
          => << httpLog[1].method, httpLog[1].url >> # << httpLog[2].method, httpLog[2].url >>

\* create_branch stops after its first call was answered 404
C25_Witness ==
    /\ srvPc = "returned"
    /\ srvName = << "create_branch" >>
    /\ Len(httpLog) = 1
    /\ httpLog[1].resp.status = 404
    /\ httpLog[1].method = "GET"

\* create_branch makes its two calls
C25_WitnessTwo ==
    /\ srvPc = "returned"
    /\ srvName = << "create_branch" >>
    /\ Len(httpLog) = 2
    /\ httpLog[2].method = "POST"
    /\ httpLog[2].resp.status = 422

\* the names parse_command returns for the command words, each followed by
\* as many tokens as any command takes
ParsedNames ==
    LET parsed == {parse_command(Line(w, Arguments(<< "o", "/", "r" >>, << "7" >>, MaxArgs))) :
                     w \in CommandWords \cup {"delete_repository"}}
    IN {r.tool_name.v[1] : r \in {x \in parsed : x.tool_name # PyNone}}

\* the names the dispatcher has a handler for
Registered ==
    {n \in CommandWords \cup list_tools \cup {"delete_repository"} :
        handle_tool_call(<< n >>, PyNone, << Resp("ConnectError", 0, InvalidJson),
                                             Resp("ConnectError", 0, InvalidJson) >>).content
          # << ErrorText(<< "Unknown tool: ", n >>) >>}

\* C26: the names parse_command can return, the names the dispatcher has a
\* handler for and the names list_tools advertises are the same 18 names, so
\* a command that was parsed never gets the answer "Unknown tool".
C26_SameNames ==
    /\ pc = "idle"
       => /\ ParsedNames = Registered
          /\ Registered = list_tools
          /\ Cardinality(list_tools) = 18
    /\ tool_name # PyNone => tool_name.v[1] \in list_tools
    /\ (srvPc = "returned" /\ srvOutcome.raised = "")
       => srvOutcome.content # << ErrorText(<< "Unknown tool: " >> \o srvName) >>

\* a parsed command, written in capitals, was handled by its handler
C26_Witness ==
    /\ pc = "done"
    /\ query # << >>
    /\ query[1] = "LIST_REPOSITORIES"
    /\ tool_name = PyStr(<< "list_repositories" >>)
    /\ srvPc = "returned"
    /\ srvName = << "list_repositories" >>
    /\ Len(httpLog) = 1

\* C27: run_github_agent returns an error taken from the content only when
\* the handler produced an error result, which is a text that opens with the
\* marker; a summary of a successful answer that has the marker somewhere
\* inside (in a title, a description, a file) is returned as data.
C27_ErrorsOnly ==
    (pc = "done" /\ response.kind = "result" /\ srvPc = "returned"
        /\ srvOutcome.raised = "" /\ result = ProcessResponse(response)
        /\ \A i \in 1..Len(srvOutcome.content) :
              srvOutcome.content[i] # << >> /\ srvOutcome.content[i][1] # Marker)
    => /\ result.raised = ""
       /\ "error" \notin DOMAIN result.value
       /\ "success" \in DOMAIN result.value

\* The connect() calls made so far all went through or are still under way,
\* and nothing was disconnected.
Undisturbed ==
    /\ mgr.closed = {}
    /\ mgr.stopped = {}
    /\ \A t \in DOMAIN task : task[t].pc # "failed"
    /\ \A n \in 1..mgr.made :
           \/ n \in mgr.initialized
           \/ \E t \in DOMAIN task :
                  /\ task[t].id = n
                  /\ task[t].pc \in {"entering_stdio", "entering_session", "initializing"}

\* C28: however concurrent connect() calls on the shared manager interleave,
\* at most one server process is started and at most one ClientSession is
\* opened, and every caller is handed that same session.
C28_OneSession ==
    Undisturbed =>
        /\ Cardinality(mgr.started) <= 1
        /\ Cardinality(mgr.opened) <= 1
        /\ \A t, u \in DOMAIN task :
               (task[t].pc = "returned" /\ task[u].pc = "returned")
                   => task[t].got = task[u].got

\* C29: connect() only ever returns a session on which initialize() completed
\* and which has not been closed, and a connect() that failed leaves
\* self.session unset, so that the next connect() runs the whole setup again.
C29_OnlyLiveSessions ==
    [][\A t \in DOMAIN task :
           /\ ((Connect(t) \/ Initialized(t)) /\ task'[t].pc = "returned")
                  => /\ task'[t].got \in mgr'.initialized
                     /\ task'[t].got \notin mgr'.closed
           /\ (task[t].pc # "failed" /\ task'[t].pc = "failed")
                  => mgr'.session = 0]_vars

\* the line has been given to parse_command and its first token, lower-cased,
\* is one of the two commands that both agents know
CommonCommand ==
    /\ pc \in {"rejected", "raised", "dispatched"}
    /\ ~Blank(query)
    /\ Tokenize(query) # << >>
    /\ Lower(Tokenize(query)[1]) \in {<< "list_repositories" >>, << "get_repo_details" >>}

\* C30 as stated: on every line whose command word is list_repositories or
\* get_repo_details the parse_command of git_mcp2 and the parse_command of
\* the root agent return the same pair of tool name and arguments.
C30_SamePair ==
    CommonCommand => github_agent_parse_command(query) = parse_command(query)

\* C30: on every line whose command word is list_repositories or
\* get_repo_details both parse_command functions return without raising,
\* return (None, None) on the same lines, and otherwise return the same tool
\* name and a mapping with the same single key; the values are equal for
\* get_repo_details, and for list_repositories the root agent's user name is
\* the git_mcp2 one with the white space at its ends removed.
C30_SameUpToStrip ==
    CommonCommand =>
        LET here == parse_command(query)
            root == github_agent_parse_command(query)
        IN /\ here.raised = "" /\ root.raised = ""
           /\ tool_name = here.tool_name /\ arguments = here.arguments
           /\ root.tool_name = here.tool_name
           /\ (root.arguments = PyNone) <=> (here.arguments = PyNone)
           /\ here.arguments # PyNone =>
                /\ DOMAIN root.arguments.v = DOMAIN here.arguments.v
                /\ here.tool_name = PyStr(<< "get_repo_details" >>)
                       => root.arguments = here.arguments
                /\ here.tool_name = PyStr(<< "list_repositories" >>)
                       => root.arguments.v["username"]
                              = PyStr(Strip(here.arguments.v["username"].v))

\* a list_repositories line whose user name begins or ends with a blank
C30_Witness ==
    /\ CommonCommand
    /\ pc = "dispatched"
    /\ tool_name = PyStr(<< "list_repositories" >>)
    /\ Strip(arguments.v["username"].v) # arguments.v["username"].v

\* a line with one of the two command words and no argument: (None, None)
C30_WitnessNone ==
    /\ CommonCommand
    /\ github_agent_parse_command(query) = NoCommand

====
